---- MODULE Spec2Model ----
(***************************************************************************)
(* A model of SBOM-TM's rule-based correlation and scoring engine:         *)
(*   scorer.py       compute_score                                         *)
(*   rule_engine.py  RuleEngine (catalog loading, evaluate) and the        *)
(*                   condition evaluator                                   *)
(*   service.py      ScanService.run                                       *)
(*   threatintel_enricher.py  enrichment and the KEV cache (load_cisa_kev) *)
(*                                                                         *)
(* JSON / Python values are tagged records:                                *)
(*   None, Bool(b), Num(n), Str(s), List(l), Dict(d).                      *)
(* A number is kept in hundredths (8.0 is Num(800), 0.05 is Num(5)), so    *)
(* the arithmetic of the scorer is exact.  A string is kept as the         *)
(* sequence of its dot-free segments, i.e. as s.split("."):                *)
(* "vuln.severity" is <<"vuln", "severity">>, "HIGH" is <<"HIGH">> and     *)
(* the empty string is <<"">>.  A dict is a function from its keys.        *)
(***************************************************************************)
EXTENDS Integers, Sequences, FiniteSets, TLC

VARIABLES
    score_call,     \* the call of compute_score in progress: arguments and outcome
    cond_call,      \* the call of _condition_matches in progress
    rules_dir,      \* settings.rules_dir: the rule files, name |-> content
    engine,         \* "none" before RuleEngine.from_directory, then "loaded" or "failed"
    rules,          \* RuleEngine.rules
    eval_call,      \* the call of RuleEngine.evaluate in progress and its generator
    run,            \* the call of ScanService.run in progress: its locals and position
    session,        \* the rows added to the session of the run, not yet committed
    db,             \* the rows the database holds
    reports,        \* the JSON reports written, as the list of their threats
    _kev_cache,     \* threatintel_enricher._kev_cache: None or the cached KEV set
    _kev_cache_expiry, \* threatintel_enricher._kev_cache_expiry: None or a time
    cache_file,     \* the file cisa_kev.json of settings.cache_dir
    now,            \* datetime.now(UTC), in quarters of an hour
    kev_call,       \* the call of load_cisa_kev in progress: arguments and outcome
    last_fetched,   \* history: the set the most recent successful fetch gave
    last_failed,    \* history: the time of a failed fetch less than 15 minutes ago
    threat_call,    \* the scoring or the assembly of a hypothesis in progress
    evaluations,    \* the evaluations in progress over the one engine, by caller
    walk            \* the call of _collect_node_components in progress

vars ==
    <<score_call, cond_call, rules_dir, engine, rules, eval_call, run, session, db, reports,
      _kev_cache, _kev_cache_expiry, cache_file, now, kev_call, last_fetched, last_failed,
      threat_call, evaluations, walk>>

-----------------------------------------------------------------------------
(* Python values *)

None == [t |-> "null"]
Bool(b) == [t |-> "bool", b |-> b]
Num(n) == [t |-> "num", n |-> n]
Str(s) == [t |-> "str", s |-> s]
List(l) == [t |-> "list", l |-> l]
Dict(d) == [t |-> "dict", d |-> d]

Word(w) == Str(<<w>>)
EmptyMap == [k \in {} |-> None]
EmptyDict == Dict(EmptyMap)
EmptyStr == Str(<<"">>)

\* the outcome of a call: a value, or an exception leaving the function
Raise(e) == [t |-> "raise", e |-> e]
Raised(r) == r.t = "raise"

\* no call in progress
NoCall == [op |-> "none"]

\* d.get(k) and d.get(k, default) of a dict
GetD(d, k, default) == IF k \in DOMAIN d.d THEN d.d[k] ELSE default
Get(d, k) == GetD(d, k, None)

\* bool(v)
Truthy(v) ==
    CASE v.t = "null" -> FALSE
      [] v.t = "bool" -> v.b
      [] v.t = "num" -> v.n # 0
      [] v.t = "str" -> v.s # <<"">>
      [] v.t = "list" -> Len(v.l) > 0
      [] v.t = "dict" -> DOMAIN v.d # {}
      [] v.t = "odict" -> Len(v.items) > 0

\* a or b
PyOr(a, b) == IF Truthy(a) THEN a ELSE b

\* the value of a number or of a bool used as a number, in hundredths
IsNumber(v) == v.t \in {"num", "bool"}
NumOf(v) == IF v.t = "bool" THEN (IF v.b THEN 100 ELSE 0) ELSE v.n

Digits == {"0", "1", "2", "3", "4", "5", "6", "7", "8", "9"}
DigitVal(c) ==
    CASE c = "0" -> 0 [] c = "1" -> 1 [] c = "2" -> 2 [] c = "3" -> 3
      [] c = "4" -> 4 [] c = "5" -> 5 [] c = "6" -> 6 [] c = "7" -> 7
      [] c = "8" -> 8 [] c = "9" -> 9

\* float(s) of a string: "d" and "d.d" parse, anything else is a ValueError
IsNumeric(s) == Len(s) \in {1, 2} /\ \A i \in 1..Len(s) : s[i] \in Digits
ParseNum(s) ==
    IF Len(s) = 1 THEN 100 * DigitVal(s[1])
    ELSE 100 * DigitVal(s[1]) + 10 * DigitVal(s[2])

\* s.upper() and s.lower() of the one-segment strings of the model
UpperWord(w) ==
    CASE w = "active" -> "ACTIVE"
      [] w = "proof_of_concept" -> "PROOF_OF_CONCEPT"
      [] w = "none" -> "NONE"
      [] w = "weird" -> "WEIRD"
      [] w = "high" -> "HIGH"
      [] w = "medium" -> "MEDIUM"
      [] w = "low" -> "LOW"
      [] w = "Low" -> "LOW"
      [] w = "bogus" -> "BOGUS"
      [] w = "None" -> "NONE"
      [] w = "True" -> "TRUE"
      [] w = "False" -> "FALSE"
      [] w = "cve-2022-0002" -> "CVE-2022-0002"
      [] OTHER -> w
LowerWord(w) ==
    CASE w = "ACTIVE" -> "active"
      [] w = "PROOF_OF_CONCEPT" -> "proof_of_concept"
      [] w = "NONE" -> "none"
      [] w = "HIGH" -> "high"
      [] w = "MEDIUM" -> "medium"
      [] w = "LOW" -> "low"
      [] w = "Low" -> "low"
      [] w = "None" -> "none"
      [] w = "True" -> "true"
      [] w = "False" -> "false"
      [] OTHER -> w
Upper(s) == [i \in 1..Len(s) |-> UpperWord(s[i])]
Lower(s) == [i \in 1..Len(s) |-> LowerWord(s[i])]

\* str(v): a string is itself; a float prints as "i.f"
DigitStr(n) ==
    CASE n = 0 -> "0" [] n = 1 -> "1" [] n = 2 -> "2" [] n = 3 -> "3"
      [] n = 4 -> "4" [] n = 5 -> "5" [] n = 6 -> "6" [] n = 7 -> "7"
      [] n = 8 -> "8" [] n = 9 -> "9" [] OTHER -> "<int>"
PyStr(v) ==
    CASE v.t = "str" -> v.s
      [] v.t = "null" -> <<"None">>
      [] v.t = "bool" -> IF v.b THEN <<"True">> ELSE <<"False">>
      [] v.t = "num" ->
            IF v.n >= 0 /\ v.n % 10 = 0
            THEN <<DigitStr(v.n \div 100), DigitStr((v.n % 100) \div 10)>>
            ELSE <<"<float>">>
      [] v.t = "list" -> <<"<list>">>
      [] v.t = "dict" -> <<"<dict>">>
      [] OTHER -> <<"<object>">>

\* round(n / d) to the nearest integer, ties to the even one
RoundHalfEven(n, d) ==
    LET q == n \div d
        r == n % d
    IN  IF 2 * r < d THEN q
        ELSE IF 2 * r > d THEN q + 1
        ELSE IF q % 2 = 0 THEN q ELSE q + 1

Min(a, b) == IF a <= b THEN a ELSE b

-----------------------------------------------------------------------------
(* scorer.py *)

EXPOSURE_DEFAULT == 30

EXPLOITABILITY_MAP(key) ==
    CASE key = <<"NONE">> -> 0
      [] key = <<"PROOF_OF_CONCEPT">> -> 60
      [] key = <<"ACTIVE">> -> 100
      [] key = <<"ACTIVE_EXPLOIT">> -> 100
      [] OTHER -> 0

VALUE_MAP(key) ==
    CASE key = <<"low">> -> 20
      [] key = <<"medium">> -> 50
      [] key = <<"high">> -> 100
      [] OTHER -> 50

_safe_float(value) ==
    CASE value.t = "num" -> value
      [] value.t = "bool" -> Num(NumOf(value))
      [] value.t = "str" -> IF IsNumeric(value.s) THEN Num(ParseNum(value.s)) ELSE None
      [] OTHER -> None

\* lines 27-29: the CVSS value the score is computed from
ScoreCvss(vulnerability) ==
    LET cvss == PyOr(_safe_float(Get(vulnerability, "CVSS")), Get(vulnerability, "cvss"))
    IN  IF cvss.t = "dict"
        THEN PyOr(_safe_float(Get(cvss, "Score")), _safe_float(Get(cvss, "score")))
        ELSE cvss

\* line 30: severity_score in thousandths; dividing a str or a list raises
SeverityScore(vulnerability) ==
    LET cvss == PyOr(ScoreCvss(vulnerability), Num(0))
    IN  IF IsNumber(cvss) THEN Num(NumOf(cvss)) ELSE Raise("TypeError")

\* lines 32-33
Exploitability(vulnerability) ==
    LET exploit_maturity ==
            PyOr(Get(vulnerability, "Exploitability"), Get(vulnerability, "exploit_maturity"))
    IN  EXPLOITABILITY_MAP(Upper(PyStr(PyOr(exploit_maturity, Word("NONE")))))

\* lines 35-36
AssetValue(context) ==
    VALUE_MAP(Lower(PyStr(GetD(context, "value_metric", Word("medium")))))

\* lines 38-44: .get on a non-dict exposure raises, float() of a non-number raises
Exposure(context) ==
    LET holder == GetD(context, "exposure", EmptyDict)
    IN  IF holder.t # "dict" THEN Raise("AttributeError")
        ELSE LET exposure == GetD(holder, "internet", Get(context, "internet_exposed"))
             IN  CASE exposure.t = "null" -> Num(EXPOSURE_DEFAULT)
                   [] exposure.t = "bool" -> Num(IF exposure.b THEN 100 ELSE 30)
                   [] exposure.t = "num" -> exposure
                   [] exposure.t = "str" ->
                        IF IsNumeric(exposure.s) THEN Num(ParseNum(exposure.s))
                        ELSE Raise("ValueError")
                   [] OTHER -> Raise("TypeError")

\* lines 46-51
CvssWeight(factors) == GetD(factors, "cvss_weight", Num(50))
ExploitabilityWeight(factors) ==
    GetD(factors, "exploitability_weight", GetD(factors, "exploit_maturity_weight", Num(30)))
AssetValueWeight(factors) == GetD(factors, "asset_value_weight", Num(15))
ExposureWeight(factors) == GetD(factors, "exposure_weight", Num(5))

\* lines 53-61.  baseline is in units of 1e-5, baseline * pattern_multiplier in
\* units of 1e-7, and the returned score in hundredths.
ScoreOfUnclamped(cw, sev, ew, expl, aw, av, xw, expo, pattern_multiplier) ==
    LET baseline == cw * sev + 10 * (ew * expl + aw * av + xw * expo)
    IN  RoundHalfEven(baseline * pattern_multiplier, 1000)
ScoreOf(cw, sev, ew, expl, aw, av, xw, expo, pattern_multiplier) ==
    LET baseline == cw * sev + 10 * (ew * expl + aw * av + xw * expo)
    IN  RoundHalfEven(Min(10000000, baseline * pattern_multiplier), 1000)

compute_score(vulnerability, context, factors, pattern_multiplier) ==
    LET severity_score == SeverityScore(vulnerability)
        exposure == Exposure(context)
        cvss_weight == CvssWeight(factors)
        exploitability_weight == ExploitabilityWeight(factors)
        asset_value_weight == AssetValueWeight(factors)
        exposure_weight == ExposureWeight(factors)
    IN  IF Raised(severity_score) THEN severity_score
        ELSE IF Raised(exposure) THEN exposure
        ELSE IF ~(IsNumber(cvss_weight) /\ IsNumber(exploitability_weight)
                  /\ IsNumber(asset_value_weight) /\ IsNumber(exposure_weight)
                  /\ IsNumber(pattern_multiplier))
        THEN Raise("TypeError")
        ELSE Num(ScoreOf(NumOf(cvss_weight), severity_score.n,
                         NumOf(exploitability_weight), Exploitability(vulnerability),
                         NumOf(asset_value_weight), AssetValue(context),
                         NumOf(exposure_weight), exposure.n,
                         NumOf(pattern_multiplier)))

-----------------------------------------------------------------------------
(* rule_engine.py: the condition evaluator *)

\* A JSON object of a rule file keeps the order of its keys: ODict(items) is
\* the sequence of its <<key, value>> pairs, each key a string (its segments).
ODict(items) == [t |-> "odict", items |-> items]
IsDict(v) == v.t \in {"dict", "odict"}
HasKey(c, k) == \E i \in 1..Len(c.items) : c.items[i][1] = k
CGetD(c, k, default) ==
    IF HasKey(c, k)
    THEN c.items[CHOOSE i \in 1..Len(c.items) : c.items[i][1] = k][2]
    ELSE default
CGet(c, k) == CGetD(c, k, None)

\* not v
Falsy(v) == ~Truthy(v)

\* a == b
PyEq(a, b) ==
    IF IsNumber(a) /\ IsNumber(b) THEN NumOf(a) = NumOf(b)
    ELSE a.t = b.t /\ a = b

\* x in l, for a list l
InList(x, l) == \E i \in 1..Len(l) : PyEq(x, l[i])

\* lines 91-102
RECURSIVE DigTokens(_, _, _)
DigTokens(current, tokens, i) ==
    IF i > Len(tokens) THEN current
    ELSE IF current.t = "dict" THEN DigTokens(Get(current, tokens[i]), tokens, i + 1)
    ELSE None
DigNoAlias(payload, field) == DigTokens(payload, field, 1)
_dig_value(payload, field) ==
    LET renamed ==
            IF Len(field) >= 2 /\ field[1] = "vulnerability" THEN <<"vuln">> \o Tail(field)
            ELSE IF Len(field) >= 2 /\ field[1] = "package" THEN <<"component">> \o Tail(field)
            ELSE field
    IN  DigTokens(payload, renamed, 1)

\* the order of two values under <, <=, >, >=: "lt", "eq", "gt", or "error"
\* when Python raises TypeError for the pair
WordRank(w) ==
    CASE w = "CRITICAL" -> 1 [] w = "HIGH" -> 2 [] w = "LOW" -> 3
      [] w = "MEDIUM" -> 4 [] OTHER -> 5
Order(a, b) ==
    IF IsNumber(a) /\ IsNumber(b)
    THEN (IF NumOf(a) < NumOf(b) THEN "lt" ELSE IF NumOf(a) = NumOf(b) THEN "eq" ELSE "gt")
    ELSE IF a.t = "str" /\ b.t = "str" /\ Len(a.s) = 1 /\ Len(b.s) = 1
    THEN (IF a.s = b.s THEN "eq"
          ELSE IF WordRank(a.s[1]) < WordRank(b.s[1]) THEN "lt" ELSE "gt")
    ELSE "error"
Ordered(actual, expected, allowed) ==
    IF actual = None THEN Bool(FALSE)
    ELSE IF Order(actual, expected) = "error" THEN Raise("TypeError")
    ELSE Bool(Order(actual, expected) \in allowed)

\* needle in hay, for two strings
SubstringPairs ==
    {<<<<"npm">>, <<"pkg:npm/lodash@4", "17", "21">>>>,
     <<<<"IG">>, <<"HIGH">>>>}
IsSubstring(needle, hay) ==
    \/ needle = hay
    \/ needle = <<"">>
    \/ <<needle, hay>> \in SubstringPairs

\* lines 105-128
_compare(operator, actual, expected) ==
    CASE operator = <<"eq">> -> Bool(PyEq(actual, expected))
      [] operator = <<"neq">> -> Bool(~PyEq(actual, expected))
      [] operator = <<"gte">> -> Ordered(actual, expected, {"gt", "eq"})
      [] operator = <<"lte">> -> Ordered(actual, expected, {"lt", "eq"})
      [] operator = <<"gt">> -> Ordered(actual, expected, {"gt"})
      [] operator = <<"lt">> -> Ordered(actual, expected, {"lt"})
      [] operator = <<"in">> ->
            IF expected.t = "list" THEN Bool(InList(actual, expected.l)) ELSE Bool(FALSE)
      [] operator = <<"contains">> ->
            IF actual.t = "list" THEN Bool(InList(expected, actual.l))
            ELSE IF actual.t = "str" THEN Bool(IsSubstring(PyStr(expected), actual.s))
            ELSE Bool(FALSE)
      [] operator = <<"exists">> -> Bool(actual # None)
      [] OTHER -> Bool(FALSE)

\* lines 84-87: every operator of the mapping, in order, until one is false
RECURSIVE CompareAll(_, _, _)
CompareAll(items, actual, i) ==
    IF i > Len(items) THEN Bool(TRUE)
    ELSE LET r == _compare(items[i][1], actual, items[i][2])
         IN  IF r = Bool(TRUE) THEN CompareAll(items, actual, i + 1) ELSE r

\* re.search(pattern, text, flags): "match", "none", or "error" (re.error)
RegexInvalid == {<<"(">>}
RegexMatches ==
    {<<<<"HIGH|CRITICAL">>, <<"HIGH">>>>, <<<<"HIGH|CRITICAL">>, <<"CRITICAL">>>>,
     <<<<"^pkg:npm">>, <<"pkg:npm/lodash@4", "17", "21">>>>}
re_search(pattern, text, ignorecase) ==
    IF pattern \in RegexInvalid THEN "error"
    ELSE IF <<pattern, text>> \in RegexMatches THEN "match"
    ELSE IF ignorecase /\ <<Upper(pattern), Upper(text)>> \in RegexMatches THEN "match"
    ELSE "none"

\* packaging.version.Version(s): a release of numeric segments, or InvalidVersion
Numerals == Digits \cup {"17", "21", "22"}
NumeralVal(c) ==
    CASE c = "17" -> 17 [] c = "21" -> 21 [] c = "22" -> 22 [] OTHER -> DigitVal(c)
IsVersion(s) == \A i \in 1..Len(s) : s[i] \in Numerals
VersionDiffers(a, b, i) == a # b
RECURSIVE VersionLess(_, _, _)
VersionLess(a, b, i) ==
    LET x == IF i <= Len(a) THEN NumeralVal(a[i]) ELSE 0
        y == IF i <= Len(b) THEN NumeralVal(b[i]) ELSE 0
    IN  IF i > Len(a) /\ i > Len(b) THEN FALSE
        ELSE IF x < y THEN TRUE
        ELSE IF x > y THEN FALSE
        ELSE VersionLess(a, b, i + 1)

\* line 182: value in (None, "", [], {})
IsMissingFalsy(value) == ~Truthy(value)
IsMissing(value) ==
    \/ value = None
    \/ value = EmptyStr
    \/ value.t = "list" /\ Len(value.l) = 0
    \/ value.t = "dict" /\ DOMAIN value.d = {}

\* lines 145-151
RECURSIVE RegexAny(_, _, _, _, _)
RegexAny(field_list, pattern, ignorecase, context, i) ==
    IF i > Len(field_list) THEN Bool(FALSE)
    ELSE IF Falsy(field_list[i]) THEN RegexAny(field_list, pattern, ignorecase, context, i + 1)
    ELSE LET actual == _dig_value(context, PyStr(field_list[i]))
             found == IF actual = None THEN "none"
                      ELSE re_search(PyStr(pattern), PyStr(actual), ignorecase)
         IN  IF found = "error" THEN Raise("re.error")
             ELSE IF found = "match" THEN Bool(TRUE)
             ELSE RegexAny(field_list, pattern, ignorecase, context, i + 1)

\* lines 180-184
RECURSIVE MissingAny(_, _, _)
MissingAny(fields, context, i) ==
    IF i > Len(fields) THEN Bool(FALSE)
    ELSE IF IsMissing(_dig_value(context, PyStr(fields[i]))) THEN Bool(TRUE)
    ELSE MissingAny(fields, context, i + 1)

RECURSIVE _condition_matches(_, _)
RECURSIVE _evaluate_complex_condition(_, _)
RECURSIVE AllMatch(_, _, _)

\* any(...) in the place of all(...)
AnyMatch(conditions, context, i) ==
    Bool(\E k \in 1..Len(conditions) : _condition_matches(conditions[k], context) = Bool(TRUE))

\* all(_condition_matches(c, context) for c in conditions): stops at the
\* first condition that is false, and an exception leaves it
AllMatch(conditions, context, i) ==
    IF i > Len(conditions) THEN Bool(TRUE)
    ELSE LET r == _condition_matches(conditions[i], context)
         IN  IF r = Bool(TRUE) THEN AllMatch(conditions, context, i + 1) ELSE r

\* lines 76-88
_condition_matches(condition, context) ==
    IF Falsy(condition) THEN Bool(TRUE)
    ELSE IF condition.t \in {"str", "list"} THEN Raise("AttributeError")
    ELSE IF condition.t # "odict" THEN Raise("TypeError")
    ELSE IF HasKey(condition, <<"match_type">>)
    THEN _evaluate_complex_condition(condition, context)
    ELSE LET field == condition.items[1][1]
             value == condition.items[1][2]
             actual == _dig_value(context, field)
         IN  IF value.t = "odict" THEN CompareAll(value.items, actual, 1)
             ELSE Bool(PyEq(actual, value))

\* lines 131-202
_evaluate_complex_condition(condition, context) ==
    LET match_type == Lower(PyStr(CGetD(condition, <<"match_type">>, EmptyStr)))
        field == CGet(condition, <<"field">>)
    IN  CASE match_type \in {<<"regex">>, <<"regex_any">>} ->
                LET pattern == CGet(condition, <<"pattern">>)
                    flags_value == CGetD(condition, <<"flags">>, EmptyStr)
                    ignorecase == flags_value.t = "str"
                                  /\ Lower(flags_value.s) \in {<<"i">>, <<"im">>}
                    field_list == IF match_type = <<"regex_any">>
                                  THEN CGet(condition, <<"fields">>)
                                  ELSE List(<<field>>)
                IN  IF Falsy(pattern) THEN Bool(FALSE)
                    ELSE IF Falsy(field_list) THEN Bool(FALSE)
                    ELSE IF field_list.t # "list" THEN Raise("TypeError")
                    ELSE RegexAny(field_list.l, pattern, ignorecase, context, 1)
          [] match_type \in {<<"any_of">>, <<"in_list">>} ->
                LET values == CGetD(condition, <<"values">>, List(<<>>))
                    actual == _dig_value(context, PyStr(field))
                IN  IF Falsy(field) THEN Bool(FALSE)
                    ELSE IF actual = None THEN Bool(FALSE)
                    ELSE IF values.t # "list" THEN Raise("TypeError")
                    ELSE Bool(\E i \in 1..Len(values.l) : PyStr(values.l[i]) = PyStr(actual))
          [] match_type = <<"version_lt_field">> ->
                LET compare_to == CGet(condition, <<"compare_to">>)
                    left == _dig_value(context, PyStr(field))
                    right == _dig_value(context, PyStr(compare_to))
                IN  IF Falsy(field) \/ Falsy(compare_to) THEN Bool(FALSE)
                    ELSE IF left = None \/ right = None THEN Bool(FALSE)
                    ELSE IF ~IsVersion(PyStr(left)) \/ ~IsVersion(PyStr(right)) THEN Bool(FALSE)
                    ELSE Bool(VersionLess(PyStr(left), PyStr(right), 1))
          [] match_type = <<"missing_fields">> ->
                LET fields == CGetD(condition, <<"fields">>, List(<<>>))
                IN  IF fields.t = "str" THEN Bool(fields.s # <<"">>)
                    ELSE IF fields.t # "list" THEN Raise("TypeError")
                    ELSE MissingAny(fields.l, context, 1)
          [] match_type = <<"and">> ->
                LET subconditions == CGetD(condition, <<"subconditions">>, List(<<>>))
                IN  IF subconditions.t # "list" THEN Raise("TypeError")
                    ELSE AllMatch(subconditions.l, context, 1)
          [] match_type = <<"exists">> ->
                IF Falsy(field) THEN Bool(FALSE)
                ELSE LET v == _dig_value(context, PyStr(field))
                     IN  Bool(~(v = None \/ v = EmptyStr))
          [] match_type = <<"not_exists">> ->
                IF Falsy(field) THEN Bool(FALSE)
                ELSE LET v == _dig_value(context, PyStr(field))
                     IN  Bool(v = None \/ v = EmptyStr)
          [] OTHER -> Bool(FALSE)

-----------------------------------------------------------------------------
(* rule_engine.py: the rule catalog and RuleEngine *)

\* list(v) of a JSON value: the items of a list, the keys of an object, the
\* characters of a string (kept as its segments); a number has no list
CanList(v) == v.t \in {"list", "odict", "str"}
ListItems(v) ==
    IF v.t = "list" THEN v.l
    ELSE IF v.t = "str" THEN [i \in 1..Len(v.s) |-> Word(v.s[i])]
    ELSE [i \in 1..Len(v.items) |-> Str(v.items[i][1])]

\* f"{title}: {description}"
Concat(title, description) == Str(title.s \o <<": ">> \o description.s)

\* lines 226-238: the result template, synthesized when the entry gives none
RuleResult(entry, rule_id) ==
    LET result == PyOr(Get(entry, "result"), EmptyDict)
        tags == PyOr(Get(entry, "tags"), List(<<>>))
        remediation == Get(entry, "remediation")
        recommendations ==
            IF Truthy(remediation)
            THEN List(<<Dict("type" :> Word("remediation") @@ "detail" :> remediation)>>)
            ELSE List(<<>>)
    IN  IF Truthy(result) THEN result
        ELSE Dict("pattern" :> PyOr(tags, List(<<rule_id>>))
                  @@ "objective" :> GetD(entry, "objective", List(<<>>))
                  @@ "recommendations" :> recommendations
                  @@ "pattern_multiplier" :> GetD(entry, "pattern_multiplier", Num(100)))

\* the conditions of an entry, were the singular `condition` not read
PluralConditions(entry) == Get(entry, "conditions")
\* lines 220-224: the conditions of an entry, falsy when it has none
RawConditions(entry) ==
    LET raw_conditions == Get(entry, "conditions")
    IN  IF ~Truthy(raw_conditions) /\ Truthy(Get(entry, "condition"))
        THEN List(<<Get(entry, "condition")>>)
        ELSE raw_conditions

\* lines 213-218
RuleDescription(entry) ==
    LET title == Get(entry, "title")
        description == Get(entry, "description")
    IN  IF Truthy(title) /\ Truthy(description) THEN Concat(title, description)
        ELSE PyOr(title, PyOr(description, EmptyStr))

\* lines 240-253: the Rule built of an entry that is kept
Rule(entry, rule_id, conditions) ==
    [t |-> "rule",
     id |-> Str(PyStr(rule_id)),
     description |-> RuleDescription(entry),
     conditions |-> conditions,
     result |-> RuleResult(entry, rule_id),
     score_factors |-> GetD(entry, "score_factors", EmptyDict),
     severity |-> Get(entry, "severity"),
     last_updated |-> Get(entry, "last_updated"),
     metadata |-> Dict("scope" :> Get(entry, "scope") @@ "tags" :> Get(entry, "tags")
                       @@ "remediation" :> Get(entry, "remediation"))]

\* the loader without its test of `enabled`
BuildRuleIgnoringEnabled(entry) ==
    LET rule_id == PyOr(Get(entry, "id"), Get(entry, "rule_id"))
    IN  IF ~Truthy(rule_id) \/ ~Truthy(RawConditions(entry)) THEN None
        ELSE Rule(entry, rule_id, ListItems(RawConditions(entry)))
\* the loader without its test of the conditions
BuildRuleKeepingEmpty(entry) ==
    LET rule_id == PyOr(Get(entry, "id"), Get(entry, "rule_id"))
    IN  IF ~Truthy(rule_id) \/ Get(entry, "enabled") = Bool(FALSE) THEN None
        ELSE IF ~Truthy(RawConditions(entry)) THEN Rule(entry, rule_id, <<>>)
        ELSE Rule(entry, rule_id, ListItems(RawConditions(entry)))

\* lines 205-253: the Rule of an entry, None when the entry is dropped
_build_rule_from_entry(entry) ==
    IF entry.t # "dict" THEN Raise("AttributeError")
    ELSE LET rule_id == PyOr(Get(entry, "id"), Get(entry, "rule_id"))
             raw_conditions == RawConditions(entry)
         IN  IF ~Truthy(rule_id) THEN None
             ELSE IF Get(entry, "enabled") = Bool(FALSE) THEN None
             ELSE IF ~Truthy(raw_conditions) THEN None
             ELSE IF ~CanList(raw_conditions) THEN Raise("TypeError")
             ELSE Rule(entry, rule_id, ListItems(raw_conditions))

\* A rules directory: the *.json files it holds, name |-> content.  The
\* content of a file is Unreadable (open fails with OSError), NotJson
\* (json.load fails with JSONDecodeError) or Json(payload).
Unreadable == [t |-> "oserror"]
NotJson == [t |-> "badjson"]
Json(payload) == [t |-> "json", payload |-> payload]

\* the names a rule file can have, in sorted order
FileNames == <<"10-core.json", "20-extra.json", "30-local.json", "40-site.json">>
\* directory.glob("*.json") taken in the opposite order
ReversedPaths(directory) ==
    LET names == SelectSeq(FileNames, LAMBDA name : name \in DOMAIN directory)
    IN  [i \in 1..Len(names) |-> names[Len(names) + 1 - i]]
\* sorted(directory.glob("*.json"))
SortedPaths(directory) ==
    SelectSeq(FileNames, LAMBDA name : name \in DOMAIN directory)

\* the outcome of loading: the rules so far, or the exception raised
Loaded(loaded) == [raised |-> FALSE, rules |-> loaded, e |-> ""]
LoadRaise(e) == [raised |-> TRUE, rules |-> <<>>, e |-> e]

\* lines 38-41: the rules of the entries of one payload, appended to acc
RECURSIVE LoadEntries(_, _, _)
LoadEntries(entries, acc, i) ==
    IF i > Len(entries) THEN Loaded(acc)
    ELSE LET rule == _build_rule_from_entry(entries[i])
         IN  IF Raised(rule) THEN LoadRaise(rule.e)
             ELSE IF rule = None THEN LoadEntries(entries, acc, i + 1)
             ELSE LoadEntries(entries, Append(acc, rule), i + 1)

\* lines 32-43: one file; OSError and JSONDecodeError skip the file
LoadFile(content, acc) ==
    IF content.t \in {"oserror", "badjson"} THEN Loaded(acc)
    ELSE LET payload == IF IsDict(content.payload) THEN List(<<content.payload>>)
                        ELSE content.payload
         IN  IF payload.t = "list" THEN LoadEntries(payload.l, acc, 1)
             ELSE IF payload.t = "str" /\ payload.s = <<"">> THEN Loaded(acc)
             ELSE IF payload.t = "str" THEN LoadRaise("AttributeError")
             ELSE LoadRaise("TypeError")

\* lines 29-44: the rules of the directory, or the exception that leaves it
RECURSIVE LoadFiles(_, _, _, _)
LoadFiles(directory, paths, acc, i) ==
    IF i > Len(paths) THEN Loaded(acc)
    ELSE LET loaded == LoadFile(directory[paths[i]], acc)
         IN  IF loaded.raised THEN loaded
             ELSE LoadFiles(directory, paths, loaded.rules, i + 1)
from_directory(directory) == LoadFiles(directory, SortedPaths(directory), <<>>, 1)

\* lines 53-58: service is asdict(ServiceContext) or None
BuildContext(component, vulnerability, service, threatintel) ==
    Dict("component" :> component @@ "vuln" :> vulnerability
         @@ "context" :> (IF service = None THEN EmptyDict ELSE service)
         @@ "threatintel" :> PyOr(threatintel, EmptyDict))

\* lines 62-73
Hypothesis(rule) ==
    [rule_id |-> rule.id,
     description |-> rule.description,
     pattern |-> GetD(rule.result, "pattern", List(<<>>)),
     objective |-> GetD(rule.result, "objective", List(<<>>)),
     recommendations |-> GetD(rule.result, "recommendations", List(<<>>)),
     pattern_multiplier |-> GetD(rule.result, "pattern_multiplier", Num(100)),
     score_factors |-> rule.score_factors,
     rule_severity |-> rule.severity,
     rule_metadata |-> rule.metadata,
     last_updated |-> rule.last_updated]

\* the furthest rule a generator in progress has reached
RECURSIVE SharedCursor(_, _)
SharedCursor(callers, i) ==
    IF callers = {} THEN i
    ELSE LET caller == CHOOSE c \in callers : TRUE
             reached == IF evaluations[caller] = NoCall THEN i
                        ELSE IF evaluations[caller].gen.i > i
                        THEN evaluations[caller].gen.i ELSE i
         IN  SharedCursor(callers \ {caller}, reached)
\* a turn of generators that share one iterator over the rules
EvaluateStepSharedIterator(catalog, gen) ==
    IF SharedCursor(DOMAIN evaluations, gen.i) > Len(catalog)
    THEN [gen EXCEPT !.status = "done"]
    ELSE LET at == SharedCursor(DOMAIN evaluations, gen.i)
             rule == catalog[at]
             matched == AllMatch(rule.conditions, gen.context, 1)
         IN  IF Raised(matched) THEN [gen EXCEPT !.status = "raised", !.error = matched.e]
             ELSE IF matched = Bool(FALSE) THEN [gen EXCEPT !.i = at + 1]
             ELSE IF rule.result.t # "dict"
             THEN [gen EXCEPT !.status = "raised", !.error = "AttributeError"]
             ELSE [gen EXCEPT !.i = at + 1, !.yielded = Append(@, Hypothesis(rule))]
\* lines 60-73, one turn of the loop of the generator: `gen` is the state of
\* a generator evaluate returned, i the rule it looks at next
EvaluateStep(catalog, gen) ==
    IF gen.i > Len(catalog) THEN [gen EXCEPT !.status = "done"]
    ELSE LET rule == catalog[gen.i]
             matched == AllMatch(rule.conditions, gen.context, 1)
         IN  IF Raised(matched) THEN [gen EXCEPT !.status = "raised", !.error = matched.e]
             ELSE IF matched = Bool(FALSE) THEN [gen EXCEPT !.i = @ + 1]
             ELSE IF rule.result.t # "dict"
             THEN [gen EXCEPT !.status = "raised", !.error = "AttributeError"]
             ELSE [gen EXCEPT !.i = @ + 1, !.yielded = Append(@, Hypothesis(rule))]

\* lines 53-58: the generator evaluate returns, before its first turn
NewGenerator(component, vulnerability, service, threatintel) ==
    [context |-> BuildContext(component, vulnerability, service, threatintel),
     i |-> 1, yielded |-> <<>>, status |-> "running", error |-> ""]

-----------------------------------------------------------------------------
(* trivy_client.py: the vulnerabilities of a scanner report, by component *)

RECURSIVE Flatten(_)
Flatten(lists) == IF lists = <<>> THEN <<>> ELSE Head(lists) \o Flatten(Tail(lists))

\* lines 49-51: the vulnerabilities of the report, in the order of the loops
ReportVulnerabilities(report) ==
    LET results == GetD(report, "Results", GetD(report, "results", List(<<>>))).l
    IN  Flatten([i \in 1..Len(results) |->
                   PyOr(Get(results[i], "Vulnerabilities"),
                        PyOr(Get(results[i], "vulnerabilities"), List(<<>>))).l])

\* lines 52-54
VulnKey(vuln) ==
    <<IF Truthy(Get(vuln, "PkgIdentifier")) THEN Get(Get(vuln, "PkgIdentifier"), "PURL")
      ELSE None,
      PyOr(Get(vuln, "PkgName"), Get(vuln, "packageName"))>>

\* lines 45-56: key |-> the vulnerabilities of that key, in report order
extract_vulnerabilities(report) ==
    LET found == ReportVulnerabilities(report)
    IN  [key \in {VulnKey(found[i]) : i \in 1..Len(found)} |->
            SelectSeq(found, LAMBDA vuln : VulnKey(vuln) = key)]

VulnerabilitiesByName(component_purl, component_name, index) ==
    LET keys == {key \in DOMAIN index : key[2] = component_name}
    IN  IF keys = {} THEN <<>> ELSE index[CHOOSE key \in keys : TRUE]
\* lines 59-64
vulnerabilities_for_component(component_purl, component_name, index) ==
    IF <<component_purl, component_name>> \in DOMAIN index
    THEN index[<<component_purl, component_name>>]
    ELSE <<>>

-----------------------------------------------------------------------------
(* threatintel_enricher.py: enrichment with the KEV snapshot *)

\* lines 17-20 and 59, 65: the lifetime of a fetched snapshot (6 hours) and
\* of the empty one kept after a failed fetch (15 minutes), in quarters of an hour
_CACHE_TTL == 24
FAILURE_TTL == 1

KevSet(s) == [t |-> "set", s |-> s]
Time(n) == [t |-> "time", n |-> n]
\* cisa_kev.json: absent, cut short by a write that failed, or as written
NoFile == [t |-> "absent"]
Truncated == [t |-> "truncated"]
CacheFile(cves, expires_at) == [t |-> "file", cves |-> cves, expires_at |-> expires_at]

\* lines 53-57: the identifiers of the feed, upper-cased
FeedCves(data) ==
    LET items == GetD(data, "vulnerabilities", List(<<>>)).l
        listed == {i \in 1..Len(items) :
                     Truthy(Get(items[i], "cveID")) \/ Truthy(Get(items[i], "cveId"))}
    IN  {Upper(PyStr(PyOr(Get(items[i], "cveID"), PyOr(Get(items[i], "cveId"), EmptyStr)))) :
            i \in listed}

\* lines 116-124: write is what path.write_text does: "written", "oserror"
\* (nothing written) or "truncated" (OSError after the file was cut)
_write_cache_file(path, kev, expiry, write) ==
    CASE write = "written" -> CacheFile({Upper(c) : c \in kev}, expiry.n)
      [] write = "truncated" -> Truncated
      [] OTHER -> path

\* the test of lines 26-31 without `not force_refresh`
CacheFreshWhenForced(cache, expiry, t, force_refresh) ==
    cache # None /\ expiry # None /\ t < expiry.n
\* lines 26-31
CacheIsFresh(cache, expiry, t, force_refresh) ==
    ~force_refresh /\ cache # None /\ expiry # None /\ t < expiry.n
\* lines 35-41: a file cut short is a JSONDecodeError, caught at line 46
FileIsFresh(file, t, force_refresh) ==
    ~force_refresh /\ file.t = "file" /\ t < file.expires_at

\* what a call leaves behind and returns; fetched is "none" when the feed
\* was not asked, else "succeeded" or "failed"
KevOutcome(cache, expiry, file, result, fetched) ==
    [cache |-> cache, expiry |-> expiry, file |-> file, result |-> result,
     fetched |-> fetched]

\* lines 23-67, called at time t; fetch is what requests.get gives (the JSON
\* of the feed, or the exception), write what writing the cache file does
load_cisa_kev(cache, expiry, file, t, force_refresh, fetch, write) ==
    IF CacheIsFresh(cache, expiry, t, force_refresh)
    THEN KevOutcome(cache, expiry, file, cache.s, "none")
    ELSE IF FileIsFresh(file, t, force_refresh)
    THEN KevOutcome(KevSet({Upper(c) : c \in file.cves}), Time(file.expires_at), file,
                    {Upper(c) : c \in file.cves}, "none")
    ELSE IF fetch.t = "dict"
    THEN KevOutcome(KevSet(FeedCves(fetch)), Time(t + _CACHE_TTL),
                    _write_cache_file(file, FeedCves(fetch), Time(t + _CACHE_TTL), write),
                    FeedCves(fetch), "succeeded")
    ELSE KevOutcome(KevSet({}), Time(t + FAILURE_TTL),
                    _write_cache_file(file, {}, Time(t + FAILURE_TTL), write),
                    {}, "failed")

\* lines 70-83
_resolve_cve_identifier(payload) ==
    LET candidate ==
            PyOr(Get(payload, "VulnerabilityID"),
                 PyOr(Get(payload, "vulnerability_id"),
                      PyOr(Get(payload, "CVE"), PyOr(Get(payload, "cve"), Get(payload, "id")))))
    IN  IF Truthy(candidate) THEN Upper(PyStr(candidate)) ELSE <<"">>

\* lines 94-104: one vulnerability, kev_cves being what load_cisa_kev returned
EnrichVulnerability(vuln, kev_cves) ==
    LET cve_id == _resolve_cve_identifier(vuln)
        kev_listed == cve_id # <<"">> /\ cve_id \in kev_cves
        existing == PyOr(Get(vuln, "threatintel"), EmptyDict)
        update == "kev_listed" :> Bool(kev_listed)
                  @@ "chatter_score" :> (IF kev_listed THEN Num(90) ELSE Num(10))
                  @@ "sources" :> (IF kev_listed THEN List(<<Word("CISA KEV")>>) ELSE List(<<>>))
    IN  Dict(("threatintel" :> Dict(update @@ existing.d)) @@ vuln.d)

\* lines 86-105, for the one component ScanService.run passes
enrich_with_threatintel(vulnerabilities, kev_cves) ==
    [i \in 1..Len(vulnerabilities) |-> EnrichVulnerability(vulnerabilities[i], kev_cves)]

-----------------------------------------------------------------------------
(* service.py: ScanService *)

\* _extract, were a value that is missing given as the empty string
ExtractOrEmpty(payload, keys) ==
    LET found == SelectSeq(keys, LAMBDA key : Truthy(Get(payload, key)))
    IN  IF found = <<>> THEN EmptyStr ELSE Str(PyStr(Get(payload, Head(found))))
\* lines 236-241
RECURSIVE _extract(_, _)
_extract(payload, keys) ==
    IF keys = <<>> THEN None
    ELSE IF Truthy(Get(payload, Head(keys))) THEN Str(PyStr(Get(payload, Head(keys))))
    ELSE _extract(payload, Tail(keys))

\* lines 244-252
_extract_cvss(payload) ==
    LET cvss == PyOr(Get(payload, "CVSS"), Get(payload, "cvss"))
    IN  IF IsNumber(cvss) THEN Num(NumOf(cvss))
        ELSE IF cvss.t = "dict"
        THEN _safe_float(PyOr(Get(cvss, "nvd"), PyOr(Get(cvss, "Score"), Get(cvss, "score"))))
        ELSE _safe_float(PyOr(Get(payload, "CVSSScore"), Get(payload, "cvssScore")))

\* lines 188-197: mapping is load_context's, key |-> asdict(ServiceContext)
_resolve_context(component, mapping) ==
    LET purl == Get(component, "purl")
        name == Get(component, "name")
    IN  IF Truthy(purl) /\ purl \in DOMAIN mapping THEN mapping[purl]
        ELSE IF Truthy(name) /\ name \in DOMAIN mapping THEN mapping[name]
        ELSE None

\* lines 199-201
_context_dict(service_context) ==
    IF service_context = None THEN EmptyDict ELSE service_context

\* lines 203-233
_build_hypothesis_payload(component, vulnerability, service_context, hypothesis, score) ==
    LET context_dict == _context_dict(service_context)
    IN  Dict("target" :> Dict("service" :> GetD(context_dict, "service", Word("unknown"))
                              @@ "component" :> component)
             @@ "value" :> Dict("data_class" :> GetD(context_dict, "data_class", List(<<>>))
                                @@ "value_metric" :>
                                     GetD(context_dict, "value_metric", Word("medium")))
             @@ "pattern" :> hypothesis.pattern
             @@ "objective" :> hypothesis.objective
             @@ "evidence" :>
                  Dict("cve" :> _extract(vulnerability, <<"VulnerabilityID", "cve">>)
                       @@ "severity" :> _extract(vulnerability, <<"Severity", "severity">>)
                       @@ "cvss" :> _extract_cvss(vulnerability)
                       @@ "exploit_maturity" :>
                            _extract(vulnerability, <<"Exploitability", "exploit_maturity">>)
                       @@ "intel" :> GetD(vulnerability, "threatintel", EmptyDict))
             @@ "recommended_actions" :> hypothesis.recommendations
             @@ "score" :> score
             @@ "status" :> Word("open"))

\* line 136, were the severity of the rule not looked at
SeverityIgnored(rule_severity) == Num(100)
\* line 136: in hundredths; a key that cannot be hashed is a TypeError
SeverityMultiplier(rule_severity) ==
    IF rule_severity.t \in {"list", "dict", "odict"} THEN Raise("TypeError")
    ELSE IF rule_severity = Word("low") THEN Num(80)
    ELSE IF rule_severity = Word("high") THEN Num(120)
    ELSE Num(100)

\* lines 142-143: pattern_multiplier * severity_multiplier
PatternMultiplier(hypothesis) ==
    LET severity_multiplier == SeverityMultiplier(hypothesis.rule_severity)
    IN  IF Raised(severity_multiplier) THEN severity_multiplier
        ELSE IF ~IsNumber(hypothesis.pattern_multiplier) THEN Raise("TypeError")
        ELSE Num((NumOf(hypothesis.pattern_multiplier) * severity_multiplier.n) \div 100)

\* lines 135-144: the score of a hypothesis, or the exception
HypothesisScore(hypothesis, enriched_vuln, service_context) ==
    LET pattern_multiplier == PatternMultiplier(hypothesis)
    IN  IF Raised(pattern_multiplier) THEN pattern_multiplier
        ELSE compute_score(enriched_vuln, _context_dict(service_context),
                           hypothesis.score_factors, pattern_multiplier)

\* the tables of the database, and of the rows a session holds
NoRows == [scans |-> <<>>, components |-> <<>>, vulnerabilities |-> <<>>, threats |-> <<>>]
\* the id the database gives the next row of a table
NextId(database, pending, table) == Len(database[table]) + Len(pending[table]) + 1
\* storage.py lines 29: commit
Commit(database, pending) ==
    [table \in DOMAIN database |-> database[table] \o pending[table]]
\* a rollback that keeps what the session had flushed
RollbackKeeping(database, pending) == Commit(database, pending)
\* storage.py lines 30-31: rollback, the flushed rows of the session are
\* discarded with its transaction
Rollback(database, pending) == database
\* an insertion the database refuses: session.flush() raises
FlushError == "SQLAlchemyError"

\* lines 62-63
ProjectScan(id, project) == [id |-> id, project |-> project]
\* lines 67-75
Component(id, scan_id, parsed) ==
    [id |-> id, scan_id |-> scan_id, name |-> Get(parsed, "name"),
     version |-> Get(parsed, "version"), purl |-> Get(parsed, "purl"),
     supplier |-> Get(parsed, "supplier"),
     hashes |-> PyOr(Get(parsed, "hashes"), None),
     properties |-> PyOr(Get(parsed, "properties"), None)]
\* lines 117-125
Vulnerability(id, component_id, enriched_vuln) ==
    [id |-> id, component_id |-> component_id,
     cve |-> _extract(enriched_vuln, <<"VulnerabilityID", "cve">>),
     severity |-> _extract(enriched_vuln, <<"Severity", "severity">>),
     cvss |-> _extract_cvss(enriched_vuln),
     exploit_maturity |-> _extract(enriched_vuln, <<"Exploitability", "exploit_maturity">>),
     published |-> _extract(enriched_vuln, <<"PublishedDate", "published">>),
     raw |-> enriched_vuln]
\* lines 145-158
Threat(id, project, scan_id, vulnerability_id, rule_id, score, hypothesis) ==
    [id |-> id, project |-> project, scan_id |-> scan_id,
     vulnerability_id |-> vulnerability_id, rule_id |-> rule_id, score |-> score,
     hypothesis |-> hypothesis]
\* lines 162-165
ThreatExport(threat_record) ==
    Dict(("score" :> threat_record.score @@ "rule_id" :> threat_record.rule_id
          @@ "threat_id" :> Num(100 * threat_record.id))
         @@ threat_record.hypothesis.d)

-----------------------------------------------------------------------------
(* The inputs compute_score is called with *)

Absent == [t |-> "absent"]
\* the dict holding the keys of f that are given a value
MkDict(f) == Dict([k \in {x \in DOMAIN f : f[x] # Absent} |-> f[k]])

ScoreCVSS == {Absent, Num(0), Str(<<"7", "5">>), Dict("Score" :> Num(700))}
ScoreCvssLower ==
    {Absent, None, Num(500), Num(800), Str(<<"7", "5">>), Word("high"),
     Dict("score" :> Num(700))}
ScoreMaturity ==
    {<<Absent, Absent>>, <<Absent, Word("PROOF_OF_CONCEPT")>>,
     <<Word("active"), Word("weird")>>}
ScoreVulnerabilities ==
    {MkDict("CVSS" :> a @@ "cvss" :> b @@ "Exploitability" :> m[1]
            @@ "exploit_maturity" :> m[2]) :
        a \in ScoreCVSS, b \in ScoreCvssLower, m \in ScoreMaturity}

ScoreValueMetric == {Absent, Word("high"), Word("Low")}
ScoreExposure ==
    {Absent, None, EmptyDict, Dict("internet" :> Num(100)),
     Dict("internet" :> Bool(TRUE)), Dict("internet" :> Word("high")),
     Bool(TRUE), Num(100), Word("public")}
ScoreInternetExposed == {Absent, Bool(TRUE)}
ScoreContexts ==
    {MkDict("value_metric" :> v @@ "exposure" :> e @@ "internet_exposed" :> i) :
        v \in ScoreValueMetric, e \in ScoreExposure, i \in ScoreInternetExposed}

DefaultFactors ==
    Dict("cvss_weight" :> Num(50) @@ "exploitability_weight" :> Num(30)
         @@ "asset_value_weight" :> Num(15) @@ "exposure_weight" :> Num(5))
ScoreFactors ==
    {EmptyDict, DefaultFactors,
     Dict("cvss_weight" :> Num(-50)),
     Dict("exploit_maturity_weight" :> Num(90)),
     Dict("exploitability_weight" :> Num(10) @@ "exploit_maturity_weight" :> Num(90))}
ScoreMultipliers == {Num(100), Num(120), Num(-100)}

-----------------------------------------------------------------------------
(* The inputs of the rule engine *)

LodashPurl == Str(<<"pkg:npm/lodash@4", "17", "21">>)
ComponentDict(name, version, purl) ==
    Dict("name" :> name @@ "version" :> version @@ "purl" :> purl
         @@ "supplier" :> None @@ "hashes" :> EmptyDict @@ "properties" :> EmptyDict)
Components ==
    {ComponentDict(Word("lodash"), Str(<<"4", "17", "21">>), LodashPurl),
     ComponentDict(Word("libX"), Str(<<"0", "1", "0">>), None),
     ComponentDict(Word("libX"), Word("unknown"), EmptyStr),
     Dict("name" :> Word("libX") @@ "license" :> Word("GPL-3"))}

Vulnerabilities ==
    {Dict("id" :> Word("CVE-2021-1234") @@ "severity" :> Word("HIGH") @@ "cvss" :> Num(850)
          @@ "fixed_version" :> Str(<<"4", "17", "22">>)),
     Dict("VulnerabilityID" :> Word("CVE-2020-0001") @@ "Severity" :> Word("LOW")
          @@ "severity" :> Word("low") @@ "cvss" :> Num(300)
          @@ "fixed_version" :> Str(<<"0", "1">>)),
     Dict("severity" :> Word("CRITICAL") @@ "cvss" :> Str(<<"9", "8">>)
          @@ "fixed_version" :> Word("next")),
     EmptyDict}

\* asdict(ServiceContext), or None when the component has no service context
Services ==
    {None,
     Dict("service" :> Word("payments") @@ "environment" :> Word("prod")
          @@ "internet_exposed" :> Bool(TRUE) @@ "data_class" :> List(<<Word("pii")>>)
          @@ "value_metric" :> Word("high") @@ "exposure" :> Dict("internet" :> Num(100)))}

ThreatIntel ==
    {None,
     Dict("kev_listed" :> Bool(TRUE) @@ "chatter_score" :> Num(90)
          @@ "sources" :> List(<<Word("CISA KEV")>>)),
     Dict("kev_listed" :> Bool(FALSE) @@ "chatter_score" :> Num(10)
          @@ "sources" :> List(<<>>))}

Path(a, b) == Str(<<a, b>>)
Simple(field, value) == ODict(<<<<field, value>>>>)
Op(operator, expected) == ODict(<<<<<<operator>>, expected>>>>)
Complex(match_type, rest) == ODict(<<<<<<"match_type">>, Word(match_type)>>>> \o rest)
Field(f) == <<<<"field">>, f>>
Fields(l) == <<<<"fields">>, List(l)>>

EmptyCondition == ODict(<<>>)
BareSeverityHigh == Simple(<<"severity">>, Op("eq", Word("HIGH")))
MissingPurl == Complex("missing_fields", <<Fields(<<Path("component", "purl")>>)>>)

\* an `and` inside an `and`, beside a simple condition
NestedAnd ==
    Complex("and",
            <<<<<<"subconditions">>,
                List(<<Simple(<<"vuln", "severity">>, Word("HIGH")),
                       Complex("and",
                               <<<<<<"subconditions">>,
                                   List(<<Simple(<<"component", "purl">>, Op("exists", Bool(TRUE))),
                                          Simple(<<"threatintel", "kev_listed">>, Bool(TRUE))>>)>>>>)>>)>>>>)

\* conditions written with the names vuln.* and component.*
SimpleConditions ==
    {EmptyCondition,
     BareSeverityHigh,
     Simple(<<"vuln", "severity">>, Word("HIGH")),
     Simple(<<"vuln", "severity">>, Op("eq", Word("HIGH"))),
     Simple(<<"vuln", "severity">>, Op("neq", Word("HIGH"))),
     Simple(<<"vuln", "cvss">>, Op("gte", Num(700))),
     Simple(<<"vuln", "cvss">>, ODict(<<<<<<"gte">>, Num(700)>>, <<<<"lt">>, Num(800)>>>>)),
     Simple(<<"vuln", "severity">>, Op("in", List(<<Word("HIGH"), Word("CRITICAL")>>))),
     Simple(<<"component", "purl">>, Op("contains", Word("npm"))),
     Simple(<<"component", "purl">>, Op("exists", Bool(TRUE))),
     Simple(<<"component", "hashes", "sha256">>, Op("exists", Bool(TRUE))),
     Simple(<<"threatintel", "kev_listed">>, Bool(TRUE)),
     Simple(<<"context", "internet_exposed">>, Op("eq", Bool(TRUE))),
     Simple(<<"vuln", "severity">>, Op("matches", Word("HIGH"))),
     Simple(<<"vuln", "cvss">>, ODict(<<<<<<"gte">>, Num(700)>>, <<<<"between">>, Num(100)>>>>)),
     Simple(<<"vuln", "cvss">>, ODict(<<<<<<"between">>, Num(100)>>, <<<<"gte">>, Num(700)>>>>)),
     Simple(<<"component", "hashes">>, Op("exists", Bool(TRUE))),
     Simple(<<"threatintel", "sources">>, Op("exists", Bool(TRUE))),
     Simple(<<"component", "supplier">>, None),
     Simple(<<"component", "supplier">>, Op("eq", None)),
     Simple(<<"vuln", "fixed_version">>, Str(<<"4", "17", "22">>)),
     Simple(<<"vuln", "cvss">>, Op("gt", Num(700))),
     Simple(<<"vuln", "cvss">>, Op("lte", Num(700))),
     Simple(<<"vuln", "cvss">>, Op("lt", Num(700)))}
MissingConditions ==
    {MissingPurl,
     Complex("missing_fields", <<Fields(<<Path("component", "name"), Path("component", "purl")>>)>>),
     Complex("missing_fields", <<Fields(<<Path("component", "name")>>)>>),
     Complex("missing_fields", <<Fields(<<Path("component", "hashes"), Path("vuln", "cvss")>>)>>),
     Complex("missing_fields", <<Fields(<<Path("threatintel", "kev_listed")>>)>>),
     Complex("missing_fields", <<Fields(<<Path("threatintel", "sources"), Path("component", "name")>>)>>),
     Complex("missing_fields", <<Fields(<<>>)>>),
     Complex("missing_fields", <<>>)}
ComplexConditions ==
    {Complex("regex", <<Field(Path("vuln", "severity")), <<<<"pattern">>, Word("HIGH|CRITICAL")>>,
                        <<<<"flags">>, Word("i")>>>>),
     Complex("regex_any", <<Fields(<<Path("component", "name"), Path("component", "purl")>>),
                            <<<<"pattern">>, Word("^pkg:npm")>>>>),
     Complex("any_of", <<Field(Path("vuln", "severity")),
                         <<<<"values">>, List(<<Word("HIGH"), Word("CRITICAL")>>)>>>>),
     Complex("version_lt_field", <<Field(Path("component", "version")),
                                   <<<<"compare_to">>, Path("vuln", "fixed_version")>>>>),
     Complex("version_lt_field", <<Field(Path("vuln", "fixed_version")),
                                   <<<<"compare_to">>, Path("vuln", "cvss")>>>>),
     Complex("version_lt_field", <<Field(Path("component", "version"))>>),
     Complex("and", <<<<<<"subconditions">>,
                       List(<<Simple(<<"vuln", "severity">>, Word("HIGH")), MissingPurl>>)>>>>),
     Complex("exists", <<Field(Path("component", "purl"))>>),
     Complex("not_exists", <<Field(Path("component", "purl"))>>),
     Complex("sounds_like", <<Field(Path("component", "purl"))>>),
     Complex("exists", <<Field(Path("component", "hashes"))>>),
     Complex("not_exists", <<Field(Path("component", "hashes"))>>),
     Complex("exists", <<Field(Path("threatintel", "sources"))>>),
     Complex("not_exists", <<Field(Path("threatintel", "sources"))>>),
     Complex("exists", <<>>),
     Complex("not_exists", <<>>),
     NestedAnd,
     Complex("and", <<<<<<"subconditions">>, List(<<>>)>>>>),
     Complex("and", <<>>)}
CanonicalConditions == SimpleConditions \cup MissingConditions \cup ComplexConditions

\* the same condition with every field path that starts with `from.` written `to.`
RenamePath(s, from, to) ==
    IF Len(s) >= 2 /\ s[1] = from THEN <<to>> \o Tail(s) ELSE s
RECURSIVE RenameValue(_, _, _)
RECURSIVE RenameCondition(_, _, _)
RenameValue(v, from, to) ==
    CASE v.t = "str" -> Str(RenamePath(v.s, from, to))
      [] v.t = "list" -> List([i \in 1..Len(v.l) |-> RenameValue(v.l[i], from, to)])
      [] v.t = "odict" -> RenameCondition(v, from, to)
      [] OTHER -> v
RenameCondition(c, from, to) ==
    IF HasKey(c, <<"match_type">>)
    THEN ODict([i \in 1..Len(c.items) |->
                 IF c.items[i][1] \in {<<"field">>, <<"fields">>, <<"compare_to">>, <<"subconditions">>}
                 THEN <<c.items[i][1], RenameValue(c.items[i][2], from, to)>>
                 ELSE c.items[i]])
    ELSE ODict([i \in 1..Len(c.items) |->
                 <<RenamePath(c.items[i][1], from, to), c.items[i][2]>>])
Aliased(c) == RenameCondition(RenameCondition(c, "vuln", "vulnerability"), "component", "package")
Canonical(c) == RenameCondition(RenameCondition(c, "vulnerability", "vuln"), "package", "component")

Conditions == CanonicalConditions \cup {Aliased(c) : c \in CanonicalConditions}

-----------------------------------------------------------------------------
(* The rule catalogs the engine is loaded from *)

HighSeverity == Simple(<<"vuln", "severity">>, Word("HIGH"))
RuleHigh ==
    Dict("id" :> Word("R-HIGH") @@ "conditions" :> List(<<HighSeverity>>)
         @@ "result" :> Dict("pattern" :> List(<<Word("high-severity")>>)
                             @@ "pattern_multiplier" :> Num(120))
         @@ "score_factors" :> Dict("cvss_weight" :> Num(60))
         @@ "severity" :> Word("high"))
RuleHighOff ==
    Dict("id" :> Word("R-HIGH") @@ "enabled" :> Bool(FALSE)
         @@ "conditions" :> List(<<HighSeverity>>)
         @@ "result" :> Dict("pattern" :> List(<<Word("retired")>>)))
RuleAny == Dict("id" :> Word("R-ANY") @@ "conditions" :> List(<<EmptyCondition>>))
RuleOff ==
    Dict("id" :> Word("R-OFF") @@ "enabled" :> Bool(FALSE)
         @@ "conditions" :> List(<<EmptyCondition>>))
RuleEmpty ==
    Dict("id" :> Word("R-EMPTY") @@ "conditions" :> List(<<>>)
         @@ "severity" :> Word("low"))
RuleNoId == Dict("conditions" :> List(<<EmptyCondition>>))
RuleKev ==
    Dict("rule_id" :> Word("R-KEV") @@ "enabled" :> Bool(TRUE)
         @@ "condition" :> Simple(<<"threatintel", "kev_listed">>, Bool(TRUE))
         @@ "title" :> Word("Known exploited") @@ "description" :> Word("listed by CISA")
         @@ "tags" :> List(<<Word("kev")>>) @@ "remediation" :> Word("patch now")
         @@ "pattern_multiplier" :> Num(150))
RuleTwo ==
    Dict("id" :> Word("R-TWO")
         @@ "conditions" :>
              List(<<Simple(<<"vulnerability", "severity">>,
                            Op("in", List(<<Word("HIGH"), Word("CRITICAL")>>))),
                     MissingPurl>>)
         @@ "severity" :> Word("critical"))
RuleCvss ==
    Dict("id" :> Word("R-CVSS")
         @@ "conditions" :> List(<<Simple(<<"vuln", "cvss">>, Op("gte", Num(700)))>>))

RuleNested ==
    Dict("id" :> Word("R-NESTED")
         @@ "conditions" :> List(<<NestedAnd, Simple(<<"vuln", "cvss">>, Op("gte", Num(700)))>>))

RuleLow ==
    Dict("id" :> Word("R-LOW") @@ "conditions" :> List(<<EmptyCondition>>)
         @@ "severity" :> Word("low") @@ "pattern_multiplier" :> Num(150))
RuleMedium ==
    Dict("id" :> Word("R-MEDIUM") @@ "conditions" :> List(<<EmptyCondition>>)
         @@ "severity" :> Word("medium")
         @@ "result" :> Dict("pattern" :> List(<<Word("medium-severity")>>)
                             @@ "objective" :> List(<<Word("disclosure")>>)
                             @@ "pattern_multiplier" :> Num(120)))
RuleUpper ==
    Dict("id" :> Word("R-UPPER") @@ "conditions" :> List(<<EmptyCondition>>)
         @@ "severity" :> Word("HIGH")
         @@ "result" :> Dict("pattern" :> List(<<Word("upper")>>)))

\* what a rule file can hold
RuleFiles ==
    {Json(RuleHigh),
     Json(List(<<RuleAny, RuleOff>>)),
     Json(List(<<RuleHighOff, RuleTwo, RuleEmpty>>)),
     Json(List(<<RuleCvss, RuleKev, RuleNoId>>)),
     Json(List(<<RuleNested>>)),
     Json(None),
     NotJson,
     Unreadable}

\* the most files a rules directory holds
MaxFiles == 2
Directories ==
    UNION {[names -> RuleFiles] : names \in SUBSET {FileNames[i] : i \in 1..MaxFiles}}

\* the arguments of evaluate
EvalComponents ==
    {ComponentDict(Word("lodash"), Str(<<"4", "17", "21">>), LodashPurl),
     ComponentDict(Word("libX"), Str(<<"0", "1", "0">>), None)}
EvalVulnerabilities ==
    {v \in Vulnerabilities : "severity" \in DOMAIN v.d}
EvalThreatIntel == {ti \in ThreatIntel : ti # None}

-----------------------------------------------------------------------------
(* The inputs of a scan *)

OtherPurl == Str(<<"pkg:npm/lodash@3", "0", "0">>)
OpenSslPurl == Str(<<"pkg:generic/openssl@3", "0", "0">>)
Lodash == ComponentDict(Word("lodash"), Str(<<"4", "17", "21">>), LodashPurl)
LibX == ComponentDict(Word("libX"), Str(<<"0", "1", "0">>), None)
OpenSsl == ComponentDict(Word("openssl"), Str(<<"3", "0", "0">>), OpenSslPurl)

\* the most components an SBOM lists
MaxComponents == 2
RECURSIVE SeqsUpTo(_, _)
SeqsUpTo(S, n) ==
    IF n = 0 THEN {<<>>}
    ELSE LET shorter == SeqsUpTo(S, n - 1)
         IN  shorter \cup {Append(q, x) : q \in shorter, x \in S}
\* sbom_loader.load_components(sbom_path)
Sboms == SeqsUpTo({Lodash, LibX, OpenSsl}, MaxComponents)

LodashHigh ==
    Dict("VulnerabilityID" :> Word("CVE-2021-1234") @@ "PkgName" :> Word("lodash")
         @@ "PkgIdentifier" :> Dict("PURL" :> LodashPurl)
         @@ "Severity" :> Word("HIGH") @@ "severity" :> Word("HIGH") @@ "cvss" :> Num(850))
LodashCritical ==
    Dict("VulnerabilityID" :> Word("CVE-2022-0002") @@ "PkgName" :> Word("lodash")
         @@ "PkgIdentifier" :> Dict("PURL" :> LodashPurl)
         @@ "severity" :> Word("CRITICAL") @@ "cvss" :> Str(<<"9", "8">>))
LodashOther ==
    Dict("VulnerabilityID" :> Word("CVE-2019-0003") @@ "PkgName" :> Word("lodash")
         @@ "PkgIdentifier" :> Dict("PURL" :> OtherPurl)
         @@ "severity" :> Word("HIGH") @@ "cvss" :> Num(750))
LibXLow ==
    Dict("cve" :> Word("CVE-2020-0001") @@ "packageName" :> Word("libX")
         @@ "Severity" :> Word("LOW") @@ "severity" :> Word("low")
         @@ "CVSS" :> Dict("Score" :> Num(300)) @@ "exploit_maturity" :> Word("active"))
\* trivy_client.scan_sbom(sbom_path), or the fallback report
TrivyReports ==
    {EmptyDict,
     Dict("Results" :>
            List(<<Dict("Target" :> Word("go-sum")),
                   Dict("Target" :> Word("package-lock")
                        @@ "Vulnerabilities" :> List(<<LodashHigh, LodashCritical>>))>>)),
     Dict("results" :>
            List(<<Dict("vulnerabilities" :> List(<<LibXLow, LodashOther>>)),
                   Dict("Vulnerabilities" :> List(<<LodashHigh>>))>>)),
     Dict("Results" :> List(<<Dict("Vulnerabilities" :> List(<<LodashOther>>))>>))}

Payments ==
    Dict("service" :> Word("payments") @@ "environment" :> Word("prod")
         @@ "internet_exposed" :> Bool(TRUE) @@ "data_class" :> List(<<Word("pii")>>)
         @@ "value_metric" :> Word("high") @@ "exposure" :> Dict("internet" :> Num(100)))
Batch ==
    Dict("service" :> Word("batch") @@ "environment" :> Word("dev")
         @@ "internet_exposed" :> Bool(FALSE) @@ "data_class" :> List(<<>>)
         @@ "value_metric" :> Word("low") @@ "exposure" :> EmptyDict)
\* load_context(context_path)
ServiceMaps == {EmptyMap, LodashPurl :> Payments @@ Word("libX") :> Batch}

\* what load_cisa_kev returns during the scan
KevSnapshots == {{}, {<<"CVE-2021-1234">>}}

\* the rules directory of a scan
ScanCatalogs ==
    {"10-core.json" :> Json(List(<<RuleAny, RuleOff>>)),
     "10-core.json" :> Json(RuleHigh)
        @@ "20-extra.json" :> Json(List(<<RuleCvss, RuleKev, RuleNoId>>)),
     "10-core.json" :> Json(List(<<RuleHighOff, RuleTwo, RuleEmpty>>))}

\* what requests.get(CISA_KEV_URL) gives: the feed, or a timeout, an HTTP
\* error status, a body that is not JSON
KevFeeds ==
    {Dict("vulnerabilities" :> List(<<Dict("cveID" :> Word("CVE-2021-1234"))>>)),
     Dict("vulnerabilities" :>
            List(<<Dict("cveID" :> Word("CVE-2021-1234")),
                   Dict("cveId" :> Word("cve-2022-0002")),
                   Dict("vendorProject" :> Word("acme"))>>))}
FetchOutcomes ==
    KevFeeds \cup {Raise("Timeout"), Raise("HTTPError")}
WriteOutcomes == {"written", "oserror", "truncated"}
\* the latest time of the model
MaxClock == 25

\* the hypotheses evaluate yields for the rules of a catalog
ThreatRules == {RuleHigh, RuleLow, RuleMedium, RuleUpper, RuleTwo, RuleKev, RuleAny}
Hypotheses == {Hypothesis(_build_rule_from_entry(entry)) : entry \in ThreatRules}

\* vulnerabilities with every subset of the identifier, the severity, the
\* cvss, the exploit maturity and the intel, under the names of the scanner
\* or the normalized ones
ThreatCve ==
    {<<Absent, Absent>>, <<Word("CVE-2021-1234"), Absent>>, <<Absent, Word("CVE-2020-0001")>>}
ThreatSeverity == {<<Absent, Absent>>, <<Word("HIGH"), Absent>>, <<Absent, Word("low")>>}
ThreatCvss ==
    {<<Absent, Absent>>, <<Dict("Score" :> Num(750)), Absent>>, <<Absent, Num(850)>>,
     <<Absent, Str(<<"9", "8">>)>>}
ThreatMaturity == {<<Absent, Absent>>, <<Word("PROOF_OF_CONCEPT"), Absent>>, <<Absent, Word("active")>>}
ThreatIntelField ==
    {Absent,
     Dict("kev_listed" :> Bool(TRUE) @@ "chatter_score" :> Num(90)
          @@ "sources" :> List(<<Word("CISA KEV")>>))}
ThreatVulnerabilities ==
    {MkDict("VulnerabilityID" :> id[1] @@ "cve" :> id[2]
            @@ "Severity" :> sev[1] @@ "severity" :> sev[2]
            @@ "CVSS" :> cvss[1] @@ "cvss" :> cvss[2]
            @@ "Exploitability" :> em[1] @@ "exploit_maturity" :> em[2]
            @@ "threatintel" :> ti) :
        id \in ThreatCve, sev \in ThreatSeverity, cvss \in ThreatCvss,
        em \in ThreatMaturity, ti \in ThreatIntelField}
ThreatScores == {Num(0), Num(6150)}

\* what the database holds before the scan
PriorDatabases ==
    {NoRows,
     [scans |-> <<ProjectScan(1, Word("legacy"))>>,
      components |-> <<Component(1, 1, LibX)>>,
      vulnerabilities |-> <<>>,
      threats |-> <<>>]}

-----------------------------------------------------------------------------
(* The state *)

\* the callers that share the engine, none of them evaluating
Callers == {1, 2}
NoEvaluations == [caller \in Callers |-> NoCall]

\* a process that has not called load_cisa_kev, on a machine without a cache file
KevIdle ==
    /\ _kev_cache = None
    /\ _kev_cache_expiry = None
    /\ cache_file = NoFile
    /\ now = 0
    /\ kev_call = NoCall
    /\ last_fetched = {}
    /\ last_failed = None

Idle ==
    /\ score_call = NoCall
    /\ cond_call = NoCall
    /\ rules_dir = EmptyMap
    /\ engine = "none"
    /\ rules = <<>>
    /\ eval_call = NoCall
    /\ run = NoCall
    /\ session = NoRows
    /\ db = NoRows
    /\ reports = <<>>
    /\ KevIdle
    /\ threat_call = NoCall
    /\ evaluations = NoEvaluations
    /\ walk = NoCall

scoreVars == <<score_call>>
condVars == <<cond_call>>
engineVars == <<rules_dir, engine, rules, eval_call>>
scanVars == <<run, session, db, reports>>
kevVars == <<_kev_cache, _kev_cache_expiry, cache_file, now, kev_call, last_fetched,
            last_failed>>
threatVars == <<threat_call>>
sharedVars == <<evaluations>>
walkVars == <<walk>>

-----------------------------------------------------------------------------
(* The scorer *)

\* compute_score(vulnerability, context, factors, pattern_multiplier)
ComputeScore ==
    /\ score_call = NoCall
    /\ UNCHANGED <<condVars, sharedVars, walkVars, engineVars, scanVars, kevVars, threatVars>>
    /\ \E v \in ScoreVulnerabilities, c \in ScoreContexts,
          f \in ScoreFactors, pm \in ScoreMultipliers :
           score_call' = [op |-> "compute_score", vulnerability |-> v, context |-> c,
                          factors |-> f, pattern_multiplier |-> pm,
                          result |-> compute_score(v, c, f, pm)]

\* the caller takes the outcome; the next call starts afresh
ScoreDone ==
    /\ score_call # NoCall
    /\ score_call' = NoCall
    /\ UNCHANGED <<condVars, sharedVars, walkVars, engineVars, scanVars, kevVars, threatVars>>

InitScore == Idle
NextScore == ComputeScore \/ ScoreDone
SpecScore == InitScore /\ [][NextScore]_vars

ScoreReturned == score_call.op = "compute_score" /\ ~Raised(score_call.result)

-----------------------------------------------------------------------------
(* C1.  Every value compute_score returns is a score between 0 and 100,     *)
(* for any numeric weights and any numeric pattern_multiplier.              *)
C1_ScoreInRange ==
    ScoreReturned => score_call.result.n >= 0 /\ score_call.result.n <= 10000

(* C2.  compute_score returns 100 * min(1, baseline * pattern_multiplier)   *)
(* rounded to 2 decimals, baseline being the weighted sum of the four       *)
(* derived values, each weight missing from factors taking its default      *)
(* (0.5, 0.3, 0.15, 0.05); scenario 1 gives 93.6 and scenario 2 gives 34.0. *)
WeightOr(factors, key, default) ==
    IF key \in DOMAIN factors.d THEN factors.d[key].n ELSE default
ClaimedScore(call, exploitability_weight) ==
    LET baseline ==
            WeightOr(call.factors, "cvss_weight", 50) * SeverityScore(call.vulnerability).n
            + 10 * (exploitability_weight * Exploitability(call.vulnerability)
                    + WeightOr(call.factors, "asset_value_weight", 15) * AssetValue(call.context)
                    + WeightOr(call.factors, "exposure_weight", 5) * Exposure(call.context).n)
        product == baseline * call.pattern_multiplier.n
    IN  RoundHalfEven(IF product > 10000000 THEN 10000000 ELSE product, 1000)

Scenario1 ==
    [vulnerability |-> Dict("cvss" :> Num(800) @@ "exploit_maturity" :> Word("PROOF_OF_CONCEPT")),
     context |-> Dict("value_metric" :> Word("high") @@ "exposure" :> Dict("internet" :> Num(100))),
     factors |-> DefaultFactors,
     pattern_multiplier |-> Num(120)]
Scenario2 ==
    [vulnerability |-> Dict("cvss" :> Num(500)), context |-> EmptyDict,
     factors |-> EmptyDict, pattern_multiplier |-> Num(100)]
IsCallOf(scenario) ==
    /\ score_call.op = "compute_score"
    /\ score_call.vulnerability = scenario.vulnerability
    /\ score_call.context = scenario.context
    /\ score_call.factors = scenario.factors
    /\ score_call.pattern_multiplier = scenario.pattern_multiplier
ScenarioScores ==
    /\ IsCallOf(Scenario1) => score_call.result = Num(9360)
    /\ IsCallOf(Scenario2) => score_call.result = Num(3400)

\* the claim as stated: a missing exploitability_weight is 0.3
C2_ScoreFormulaAsClaimed ==
    /\ ScoreReturned =>
          score_call.result.n =
              ClaimedScore(score_call, WeightOr(score_call.factors, "exploitability_weight", 30))
    /\ ScenarioScores

(* C2, amended.  As C2, except that a missing exploitability_weight takes   *)
(* the value of exploit_maturity_weight when factors has that key, and 0.3  *)
(* only when it has neither.                                                *)
C2_ScoreFormula ==
    /\ ScoreReturned =>
          score_call.result.n =
              ClaimedScore(score_call,
                  WeightOr(score_call.factors, "exploitability_weight",
                      WeightOr(score_call.factors, "exploit_maturity_weight", 30)))
    /\ ScenarioScores
C2_Witness ==
    /\ IsCallOf(Scenario1)
    /\ score_call.result = Num(9360)

(* C3.  compute_score is total: it returns a number and never raises,       *)
(* whatever the shape of cvss, exposure, value_metric and exploit maturity. *)
C3_ScoreTotal ==
    score_call.op = "compute_score" => ~Raised(score_call.result)

-----------------------------------------------------------------------------
(* The condition evaluator, called on the contexts evaluate builds *)

\* _condition_matches(condition, context), on the context evaluate builds
ConditionMatches ==
    /\ cond_call = NoCall
    /\ UNCHANGED <<scoreVars, sharedVars, walkVars, engineVars, scanVars, kevVars, threatVars>>
    /\ \E condition \in Conditions, component \in Components,
          vulnerability \in Vulnerabilities, service \in Services, ti \in ThreatIntel :
           LET context == BuildContext(component, vulnerability, service, ti)
           IN  cond_call' = [op |-> "_condition_matches", condition |-> condition,
                             context |-> context,
                             result |-> _condition_matches(condition, context)]

ConditionDone ==
    /\ cond_call # NoCall
    /\ cond_call' = NoCall
    /\ UNCHANGED <<scoreVars, sharedVars, walkVars, engineVars, scanVars, kevVars, threatVars>>

InitCond == Idle
NextCond == ConditionMatches \/ ConditionDone
SpecCond == InitCond /\ [][NextCond]_vars

ConditionCalled == cond_call.op = "_condition_matches"

-----------------------------------------------------------------------------
(* RuleEngine: loading the catalog, and evaluate as the generator it is *)

\* RuleEngine.from_directory(rules_dir)
FromDirectory ==
    /\ engine = "none"
    /\ LET loaded == from_directory(rules_dir)
       IN  /\ engine' = IF loaded.raised THEN "failed" ELSE "loaded"
           /\ rules' = loaded.rules
    /\ UNCHANGED <<rules_dir, eval_call, scoreVars, condVars, sharedVars, walkVars, scanVars, kevVars, threatVars>>

\* evaluate(component, vulnerability, service, threatintel): the generator
Evaluate ==
    /\ engine = "loaded"
    /\ eval_call = NoCall
    /\ \E component \in EvalComponents, vulnerability \in EvalVulnerabilities,
          service \in Services, ti \in EvalThreatIntel :
           eval_call' = [op |-> "evaluate", component |-> component,
                         vulnerability |-> vulnerability, service |-> service,
                         threatintel |-> ti,
                         gen |-> NewGenerator(component, vulnerability, service, ti)]
    /\ UNCHANGED <<rules_dir, engine, rules, scoreVars, condVars, sharedVars, walkVars, scanVars, kevVars, threatVars>>

\* the consumer asks the generator for more: one turn of `for rule in self.rules`
EvaluateNext ==
    /\ eval_call # NoCall
    /\ eval_call.gen.status = "running"
    /\ eval_call' = [eval_call EXCEPT !.gen = EvaluateStep(rules, @)]
    /\ UNCHANGED <<rules_dir, engine, rules, scoreVars, condVars, sharedVars, walkVars, scanVars, kevVars, threatVars>>

\* the generator is exhausted or has raised; the next call starts afresh
EvaluateDone ==
    /\ eval_call # NoCall
    /\ eval_call.gen.status # "running"
    /\ eval_call' = NoCall
    /\ UNCHANGED <<rules_dir, engine, rules, scoreVars, condVars, sharedVars, walkVars, scanVars, kevVars, threatVars>>

InitEngine ==
    /\ score_call = NoCall
    /\ cond_call = NoCall
    /\ rules_dir \in Directories
    /\ engine = "none"
    /\ rules = <<>>
    /\ eval_call = NoCall
    /\ run = NoCall
    /\ session = NoRows
    /\ db = NoRows
    /\ reports = <<>>
    /\ KevIdle
    /\ threat_call = NoCall
    /\ evaluations = NoEvaluations
    /\ walk = NoCall
NextEngine == FromDirectory \/ Evaluate \/ EvaluateNext \/ EvaluateDone
SpecEngine == InitEngine /\ [][NextEngine]_vars

EvaluateCalled == eval_call # NoCall
EvaluateEnded == eval_call # NoCall /\ eval_call.gen.status # "running"
EvaluateExhausted == eval_call # NoCall /\ eval_call.gen.status = "done"
Yielded == eval_call.gen.yielded
YieldedIds == {Yielded[k].rule_id : k \in 1..Len(Yielded)}

\* the entries declared in the files of a directory
EntriesOfFile(content) ==
    IF content.t # "json" THEN {}
    ELSE IF content.payload.t = "dict" THEN {content.payload}
    ELSE IF content.payload.t = "list"
    THEN {content.payload.l[i] : i \in 1..Len(content.payload.l)}
    ELSE {}
EntriesOf(directory) == UNION {EntriesOfFile(directory[name]) : name \in DOMAIN directory}
DeclaredId(entry) == Str(PyStr(PyOr(Get(entry, "id"), Get(entry, "rule_id"))))
IsDisabled(entry) == Get(entry, "enabled") = Bool(FALSE)

-----------------------------------------------------------------------------
(* C4.  A rule declared with enabled: false never yields a hypothesis,      *)
(* whatever conditions it carries (a vacuous one included) and whatever the *)
(* component, vulnerability, context and threat-intel: the engine holds     *)
(* the rules it would hold were the disabled entries not in the files, and  *)
(* every hypothesis carries the id of an entry that is not disabled.        *)
WithoutDisabledFile(content) ==
    IF content.t # "json" THEN content
    ELSE IF content.payload.t = "dict"
    THEN (IF IsDisabled(content.payload) THEN Json(List(<<>>)) ELSE content)
    ELSE IF content.payload.t = "list"
    THEN Json(List(SelectSeq(content.payload.l, LAMBDA entry : ~IsDisabled(entry))))
    ELSE content
WithoutDisabled(directory) ==
    [name \in DOMAIN directory |-> WithoutDisabledFile(directory[name])]
C4_DisabledNeverYields ==
    /\ engine = "loaded" => rules = from_directory(WithoutDisabled(rules_dir)).rules
    /\ EvaluateCalled =>
          \A k \in 1..Len(Yielded) :
              \E entry \in EntriesOf(rules_dir) :
                  ~IsDisabled(entry) /\ DeclaredId(entry) = Yielded[k].rule_id
C4_Witness ==
    /\ EvaluateExhausted
    /\ RuleOff \in EntriesOf(rules_dir)
    /\ Word("R-ANY") \in YieldedIds
    /\ Word("R-OFF") \notin YieldedIds

(* C5, as stated.  A rule declared with an empty condition list matches     *)
(* every context: every evaluation that runs to its end has yielded a       *)
(* hypothesis for it.                                                       *)
HasEmptyConditionList(entry) ==
    /\ Truthy(PyOr(Get(entry, "id"), Get(entry, "rule_id")))
    /\ ~IsDisabled(entry)
    /\ Get(entry, "conditions") = List(<<>>)
    /\ ~Truthy(Get(entry, "condition"))
C5_EmptyConditionListMatches ==
    EvaluateExhausted =>
        \A entry \in EntriesOf(rules_dir) :
            HasEmptyConditionList(entry) => DeclaredId(entry) \in YieldedIds

(* C5, amended.  evaluate takes a rule without conditions to match every    *)
(* context (the conjunction of no conditions is true), but no rule of a     *)
(* loaded catalog is without conditions: a rule declared with an empty      *)
(* condition list (and no singular condition) is dropped at load and yields *)
(* no hypothesis, whatever the inputs.                                      *)
C5_EmptyConditionListDropped ==
    /\ engine = "loaded" => \A j \in 1..Len(rules) : Len(rules[j].conditions) > 0
    /\ EvaluateCalled =>
          /\ AllMatch(<<>>, eval_call.gen.context, 1) = Bool(TRUE)
          /\ \A entry \in EntriesOf(rules_dir) :
                /\ HasEmptyConditionList(entry)
                /\ \A other \in EntriesOf(rules_dir) :
                       DeclaredId(other) = DeclaredId(entry) => HasEmptyConditionList(other)
                => DeclaredId(entry) \notin YieldedIds
C5_Witness ==
    /\ EvaluateExhausted
    /\ RuleEmpty \in EntriesOf(rules_dir)
    /\ Word("R-TWO") \in YieldedIds
    /\ Word("R-EMPTY") \notin YieldedIds

(* C6.  Evaluation is deterministic and ordered: an evaluation that has     *)
(* ended has yielded exactly the rules of the catalog whose every condition *)
(* matches, each once, in catalog (load) order, so that two evaluations of  *)
(* the same inputs yield the same sequence of hypotheses.                   *)
EveryConditionMatches(rule, context) ==
    \A k \in 1..Len(rule.conditions) :
        _condition_matches(rule.conditions[k], context) = Bool(TRUE)
RECURSIVE MatchingRules(_, _, _)
MatchingRules(catalog, context, i) ==
    IF i > Len(catalog) THEN <<>>
    ELSE (IF EveryConditionMatches(catalog[i], context)
          THEN <<Hypothesis(catalog[i])>> ELSE <<>>)
         \o MatchingRules(catalog, context, i + 1)
C6_YieldsMatchingInOrder ==
    EvaluateEnded => Yielded = MatchingRules(rules, eval_call.gen.context, 1)

-----------------------------------------------------------------------------
(* ScanService.run, a step at a time.  ScanService.__init__ is              *)
(* FromDirectory on settings.rules_dir.                                     *)

Project == Word("demo")

\* an exception leaves run through session_scope, which rolls the session
\* back, raises it again and closes the session (storage.py lines 30-34)
RaiseFromRun(gen, e) ==
    /\ run' = [run EXCEPT !.gen = gen, !.pc = "raised", !.error = e]
    /\ db' = Rollback(db, session)
    /\ session' = NoRows

\* lines 45-64: the inputs are loaded, the index built, the scan row added
Run ==
    /\ engine = "loaded"
    /\ run = NoCall
    /\ \E components \in Sboms, service_map \in ServiceMaps,
          trivy_report \in TrivyReports, kev_cves \in KevSnapshots :
           LET scan == ProjectScan(NextId(db, NoRows, "scans"), Project)
           IN  /\ run' = [op |-> "run", pc |-> "components", project |-> Project,
                          components |-> components, service_map |-> service_map,
                          trivy_report |-> trivy_report,
                          vuln_index |-> extract_vulnerabilities(trivy_report),
                          kev_cves |-> kev_cves, scan_id |-> scan.id,
                          ci |-> 1, component_id |-> 0, component_dict |-> None,
                          service_context |-> None,
                          vulnerabilities |-> <<>>, vi |-> 1, vuln_id |-> 0,
                          gen |-> NoCall, threats_payload |-> <<>>,
                          vulnerability_count |-> 0, evaluated |-> <<>>, error |-> ""]
               /\ session' = [NoRows EXCEPT !.scans = <<scan>>]
    /\ UNCHANGED <<db, reports, scoreVars, condVars, sharedVars, walkVars, engineVars, kevVars, threatVars>>

\* lines 66-112: the next component of the SBOM, up to its vulnerabilities
NextComponent ==
    /\ run # NoCall
    /\ run.pc = "components"
    /\ IF run.ci > Len(run.components)
       THEN /\ run' = [run EXCEPT !.pc = "reports"]
            /\ UNCHANGED <<session, db>>
       ELSE LET parsed == run.components[run.ci]
                component_record ==
                    Component(NextId(db, session, "components"), run.scan_id, parsed)
                key == <<Get(parsed, "purl"), Get(parsed, "name")>>
                raw_vulnerabilities ==
                    vulnerabilities_for_component(key[1], key[2], run.vuln_index)
                enriched == enrich_with_threatintel(raw_vulnerabilities, run.kev_cves)
                located == [run EXCEPT !.component_id = component_record.id,
                                       !.component_dict = parsed,
                                       !.service_context =
                                            _resolve_context(parsed, run.service_map)]
            IN  \/ /\ session' = [session EXCEPT !.components = Append(@, component_record)]
                   /\ run' = IF raw_vulnerabilities = <<>>
                             THEN [located EXCEPT !.ci = @ + 1]
                             ELSE [located EXCEPT
                                      !.vuln_index = [@ EXCEPT ![key] = enriched],
                                      !.vulnerabilities = enriched,
                                      !.vi = 1,
                                      !.pc = "vulnerabilities"]
                   /\ UNCHANGED db
                \* line 77: the flush of the component row raises
                \/ RaiseFromRun(run.gen, FlushError)
    /\ UNCHANGED <<reports, scoreVars, condVars, sharedVars, walkVars, engineVars, kevVars, threatVars>>

\* lines 114-134: the next vulnerability of the component; evaluate is called
NextVulnerability ==
    /\ run # NoCall
    /\ run.pc = "vulnerabilities"
    /\ IF run.vi > Len(run.vulnerabilities)
       THEN /\ run' = [run EXCEPT !.ci = @ + 1, !.pc = "components"]
            /\ UNCHANGED <<session, db>>
       ELSE LET enriched_vuln == run.vulnerabilities[run.vi]
                vuln_record ==
                    Vulnerability(NextId(db, session, "vulnerabilities"),
                                  run.component_id, enriched_vuln)
            IN  \/ /\ session' = [session EXCEPT !.vulnerabilities = Append(@, vuln_record)]
                   /\ run' = [run EXCEPT
                                !.vulnerability_count = @ + 1,
                                !.vuln_id = vuln_record.id,
                                !.gen = NewGenerator(run.component_dict, enriched_vuln,
                                                     run.service_context,
                                                     GetD(enriched_vuln, "threatintel", EmptyDict)),
                                !.evaluated = Append(@, [component |-> run.component_dict,
                                                         vulnerability |-> enriched_vuln]),
                                !.pc = "hypotheses"]
                   /\ UNCHANGED db
                \* line 127: the flush of the vulnerability row raises
                \/ RaiseFromRun(run.gen, FlushError)
    /\ UNCHANGED <<reports, scoreVars, condVars, sharedVars, walkVars, engineVars, kevVars, threatVars>>

\* lines 159-166: the threat is added to the session and to the payload
StoreThreat(gen, threat_record) ==
    /\ run' = [run EXCEPT !.gen = gen,
                          !.threats_payload = Append(@, ThreatExport(threat_record))]
    /\ session' = [session EXCEPT !.threats = Append(@, threat_record)]
    /\ UNCHANGED db

\* lines 135-166: the body of the loop, for the hypothesis just yielded
ScoreHypothesis(gen, hypothesis, enriched_vuln, score) ==
    IF Raised(score) THEN RaiseFromRun(gen, score.e)
    ELSE \/ StoreThreat(gen,
                Threat(NextId(db, session, "threats"), run.project, run.scan_id,
                       run.vuln_id, hypothesis.rule_id, score,
                       _build_hypothesis_payload(run.component_dict, enriched_vuln,
                                                 run.service_context, hypothesis, score)))
         \* line 160: the flush of the threat row raises
         \/ RaiseFromRun(gen, FlushError)

\* lines 129-134: what the loop does with the generator after its turn
ConsumeGenerator(gen, enriched_vuln) ==
    IF gen.status = "raised" THEN RaiseFromRun(gen, gen.error)
    ELSE IF gen.status = "done"
    THEN /\ run' = [run EXCEPT !.gen = gen, !.vi = @ + 1, !.pc = "vulnerabilities"]
         /\ UNCHANGED <<session, db>>
    ELSE IF Len(gen.yielded) = Len(run.gen.yielded)
    THEN /\ run' = [run EXCEPT !.gen = gen]
         /\ UNCHANGED <<session, db>>
    ELSE ScoreHypothesis(gen, gen.yielded[Len(gen.yielded)], enriched_vuln,
             HypothesisScore(gen.yielded[Len(gen.yielded)], enriched_vuln,
                             run.service_context))

\* lines 129-166: the generator looks at its next rule; a hypothesis it
\* yields is scored and stored
NextHypothesis ==
    /\ run # NoCall
    /\ run.pc = "hypotheses"
    /\ ConsumeGenerator(EvaluateStep(rules, run.gen), run.vulnerabilities[run.vi])
    /\ UNCHANGED <<reports, scoreVars, condVars, sharedVars, walkVars, engineVars, kevVars, threatVars>>

\* lines 168-179: the reports are written and the session committed
\* (storage.py line 29); a report that cannot be written is an OSError
WriteReports ==
    /\ run # NoCall
    /\ run.pc = "reports"
    /\ \/ /\ reports' = Append(reports, run.threats_payload)
          /\ db' = Commit(db, session)
          /\ session' = NoRows
          /\ run' = [run EXCEPT !.pc = "returned"]
       \/ /\ reports' = Append(reports, run.threats_payload)
          /\ RaiseFromRun(run.gen, "OSError")
       \/ /\ RaiseFromRun(run.gen, "OSError")
          /\ UNCHANGED reports
    /\ UNCHANGED <<scoreVars, condVars, sharedVars, walkVars, engineVars, kevVars, threatVars>>

Init ==
    /\ score_call = NoCall
    /\ cond_call = NoCall
    /\ rules_dir \in ScanCatalogs
    /\ engine = "none"
    /\ rules = <<>>
    /\ eval_call = NoCall
    /\ run = NoCall
    /\ session = NoRows
    /\ db \in PriorDatabases
    /\ reports = <<>>
    /\ KevIdle
    /\ threat_call = NoCall
    /\ evaluations = NoEvaluations
    /\ walk = NoCall
Next ==
    \/ FromDirectory
    \/ Run
    \/ NextComponent
    \/ NextVulnerability
    \/ NextHypothesis
    \/ WriteReports
Spec == Init /\ [][Next]_vars

-----------------------------------------------------------------------------
(* C7.  For every component with zero correlated vulnerabilities the        *)
(* pipeline never invokes the rule engine and produces no hypothesis and no *)
(* threat, whatever rules are in the catalog (rules that match any context  *)
(* included).  The vulnerabilities correlated with a component are those of *)
(* the scanner report that carry its purl and its name.                     *)
CorrelatedVulnerabilities(report, component) ==
    SelectSeq(ReportVulnerabilities(report),
              LAMBDA vuln : VulnKey(vuln) = <<Get(component, "purl"), Get(component, "name")>>)
Uncorrelated(component) ==
    CorrelatedVulnerabilities(run.trivy_report, component) = <<>>
ThreatTarget(payload) == Get(Get(payload, "target"), "component")
ThreatTargets ==
    {ThreatTarget(run.threats_payload[k]) : k \in 1..Len(run.threats_payload)}
    \cup {ThreatTarget(session.threats[k].hypothesis) : k \in 1..Len(session.threats)}
    \cup {ThreatTarget(db.threats[k].hypothesis) :
            k \in {j \in 1..Len(db.threats) : db.threats[j].scan_id = run.scan_id}}
C7_NoVulnerabilitiesNoEvaluation ==
    run # NoCall =>
        \A i \in 1..Len(run.components) :
            Uncorrelated(run.components[i]) =>
                /\ \A k \in 1..Len(run.evaluated) :
                       run.evaluated[k].component # run.components[i]
                /\ run.components[i] \notin ThreatTargets
C7_Witness ==
    /\ run # NoCall
    /\ run.pc = "returned"
    /\ RuleAny \in EntriesOf(rules_dir)
    /\ run.components = <<OpenSsl, Lodash>>
    /\ Uncorrelated(OpenSsl)
    /\ Lodash \in ThreatTargets
    /\ OpenSsl \notin ThreatTargets

-----------------------------------------------------------------------------
(* C8.  Field aliasing: a condition addressing "vulnerability.p" evaluates  *)
(* to the same result as the same condition addressing "vuln.p", and one    *)
(* addressing "package.p" to the same result as one addressing              *)
(* "component.p", for every operator, match-type and context.               *)
C8_FieldAliasing ==
    ConditionCalled =>
        /\ cond_call.result = _condition_matches(Aliased(cond_call.condition), cond_call.context)
        /\ cond_call.result = _condition_matches(Canonical(cond_call.condition), cond_call.context)
C8_Witness ==
    /\ ConditionCalled
    /\ cond_call.condition = Simple(<<"package", "purl">>, Op("contains", Word("npm")))
    /\ cond_call.result = Bool(TRUE)

(* C9.  The condition {"severity": {"eq": "HIGH"}}, the field given as the  *)
(* bare name severity, matches a vulnerability whose severity is "HIGH".    *)
C9_BareSeverityMatches ==
    /\ ConditionCalled
    /\ cond_call.condition = BareSeverityHigh
    /\ Get(Get(cond_call.context, "vuln"), "severity") = Word("HIGH")
    => cond_call.result = Bool(TRUE)

(* C10.  A missing_fields condition is true exactly when at least one field *)
(* of its list resolves to absent, the empty string, the empty list or the  *)
(* empty map, and false when every listed field holds a non-empty value; a  *)
(* component with no purl matches fields ["component.purl"].                *)
IsMissingFields(c) ==
    /\ HasKey(c, <<"match_type">>)
    /\ CGet(c, <<"match_type">>) = Word("missing_fields")
    /\ CGet(c, <<"fields">>).t = "list"
Resolves(context, field) == _dig_value(context, field.s)
C10_MissingFields ==
    ConditionCalled /\ IsMissingFields(cond_call.condition) =>
        LET fields == CGet(cond_call.condition, <<"fields">>).l
            someMissing ==
                \E i \in 1..Len(fields) :
                    LET v == Resolves(cond_call.context, fields[i])
                    IN  \/ v = None
                        \/ v = Str(<<"">>)
                        \/ v = List(<<>>)
                        \/ v = Dict(EmptyMap)
        IN  /\ cond_call.result = Bool(someMissing)
            /\ (Canonical(cond_call.condition) = MissingPurl
                /\ ~Truthy(Get(Get(cond_call.context, "component"), "purl"))
                => cond_call.result = Bool(TRUE))
C10_Witness ==
    /\ ConditionCalled
    /\ cond_call.condition = MissingPurl
    /\ Get(Get(cond_call.context, "component"), "name") = Word("libX")
    /\ Get(cond_call.context, "component") \in Components
    /\ Get(Get(cond_call.context, "component"), "purl") = None
    /\ cond_call.result = Bool(TRUE)

-----------------------------------------------------------------------------
(* C11.  Condition evaluation never throws: for every condition and every   *)
(* context (absent fields, null values, a string compared with gte against  *)
(* a number) the evaluation returns true or false and raises no error.      *)
C11_ConditionNeverRaises ==
    ConditionCalled => cond_call.result \in {Bool(TRUE), Bool(FALSE)}

(* C12.  A condition that uses an operator name outside eq, neq, gte, lte,  *)
(* gt, lt, in, contains, exists, or a match_type outside the known complex  *)
(* types, evaluates to false for every context and field value.             *)
KnownOperators ==
    {<<"eq">>, <<"neq">>, <<"gte">>, <<"lte">>, <<"gt">>, <<"lt">>, <<"in">>,
     <<"contains">>, <<"exists">>}
KnownMatchTypes ==
    {<<"regex">>, <<"regex_any">>, <<"any_of">>, <<"in_list">>, <<"version_lt_field">>,
     <<"missing_fields">>, <<"and">>, <<"exists">>, <<"not_exists">>}
UsesUnknownOperator(c) ==
    /\ Len(c.items) > 0
    /\ ~HasKey(c, <<"match_type">>)
    /\ c.items[1][2].t = "odict"
    /\ \E i \in 1..Len(c.items[1][2].items) : c.items[1][2].items[i][1] \notin KnownOperators
UsesUnknownMatchType(c) ==
    /\ HasKey(c, <<"match_type">>)
    /\ Lower(PyStr(CGet(c, <<"match_type">>))) \notin KnownMatchTypes
C12_UnknownNeverMatches ==
    /\ ConditionCalled
    /\ UsesUnknownOperator(cond_call.condition) \/ UsesUnknownMatchType(cond_call.condition)
    => cond_call.result = Bool(FALSE)

(* C13.  version_lt_field is true only if the target field and the          *)
(* compare_to field both parse as versions and the first orders strictly    *)
(* before the second; it is false, and never an error, when the two are     *)
(* equal, when the first is greater, when either field is absent and when   *)
(* either side does not parse.                                              *)
IsVersionLtField(c) ==
    /\ HasKey(c, <<"match_type">>)
    /\ CGet(c, <<"match_type">>) = Word("version_lt_field")
Segment(s, i) == IF i <= Len(s) THEN NumeralVal(s[i]) ELSE 0
StrictlyBefore(a, b) ==
    \E i \in 1..(Len(a) + Len(b)) :
        /\ Segment(a, i) < Segment(b, i)
        /\ \A j \in 1..(i - 1) : Segment(a, j) = Segment(b, j)
ResolvedOrNone(context, field) ==
    IF field.t = "str" /\ field # EmptyStr THEN Resolves(context, field) ELSE None
C13_VersionLtField ==
    ConditionCalled /\ IsVersionLtField(cond_call.condition) =>
        LET left == ResolvedOrNone(cond_call.context, CGet(cond_call.condition, <<"field">>))
            right == ResolvedOrNone(cond_call.context, CGet(cond_call.condition, <<"compare_to">>))
        IN  cond_call.result =
                Bool(/\ left # None
                     /\ right # None
                     /\ IsVersion(PyStr(left))
                     /\ IsVersion(PyStr(right))
                     /\ StrictlyBefore(PyStr(left), PyStr(right)))
C13_Witness ==
    /\ ConditionCalled
    /\ IsVersionLtField(cond_call.condition)
    /\ CGet(cond_call.condition, <<"compare_to">>) = Path("vuln", "fixed_version")
    /\ Get(Get(cond_call.context, "component"), "version") = Str(<<"4", "17", "21">>)
    /\ Get(Get(cond_call.context, "vuln"), "fixed_version") = Str(<<"4", "17", "22">>)
    /\ cond_call.result = Bool(TRUE)

-----------------------------------------------------------------------------
(* C14.  Failure isolation is per rule-match attempt: when the evaluation   *)
(* of a condition or of a rule raises, the remaining rules of that pair and *)
(* the other (component, vulnerability) pairs of the run are still          *)
(* evaluated; no such exception aborts the run.                             *)
AbortedByEvaluation ==
    /\ run # NoCall
    /\ run.pc = "raised"
    /\ run.gen # NoCall
    /\ run.gen.status = "raised"
C14_FailureIsolation == ~AbortedByEvaluation

-----------------------------------------------------------------------------
(* load_cisa_kev, called by the processes that share the cache file *)

\* load_cisa_kev(force_refresh)
LoadCisaKev ==
    /\ kev_call = NoCall
    /\ \E force_refresh \in BOOLEAN, fetch \in FetchOutcomes, write \in WriteOutcomes :
           LET outcome == load_cisa_kev(_kev_cache, _kev_cache_expiry, cache_file, now,
                                        force_refresh, fetch, write)
           IN  /\ _kev_cache' = outcome.cache
               /\ _kev_cache_expiry' = outcome.expiry
               /\ cache_file' = outcome.file
               /\ kev_call' = [op |-> "load_cisa_kev", force_refresh |-> force_refresh,
                               fetched |-> outcome.fetched, result |-> outcome.result]
               /\ last_fetched' = IF outcome.fetched = "succeeded" THEN outcome.result
                                  ELSE last_fetched
               /\ last_failed' = IF outcome.fetched = "failed" THEN Time(now)
                                 ELSE last_failed
    /\ UNCHANGED <<now, scoreVars, condVars, sharedVars, walkVars, engineVars, scanVars, threatVars>>

KevDone ==
    /\ kev_call # NoCall
    /\ kev_call' = NoCall
    /\ UNCHANGED <<_kev_cache, _kev_cache_expiry, cache_file, now, last_fetched, last_failed,
                   scoreVars, condVars, sharedVars, walkVars, engineVars, scanVars, threatVars>>

\* time passes between two calls
Advance ==
    /\ kev_call = NoCall
    /\ \E d \in {FAILURE_TTL, _CACHE_TTL} :
           /\ now + d <= MaxClock
           /\ now' = now + d
    /\ last_failed' = IF last_failed # None /\ now' < last_failed.n + FAILURE_TTL
                      THEN last_failed ELSE None
    /\ UNCHANGED <<_kev_cache, _kev_cache_expiry, cache_file, kev_call, last_fetched,
                   scoreVars, condVars, sharedVars, walkVars, engineVars, scanVars, threatVars>>

\* the process ends and another starts: the module globals are None again
\* (lines 17-18), the cache file stays
Restart ==
    /\ kev_call = NoCall
    /\ _kev_cache # None
    /\ _kev_cache' = None
    /\ _kev_cache_expiry' = None
    /\ UNCHANGED <<cache_file, now, kev_call, last_fetched, last_failed,
                   scoreVars, condVars, sharedVars, walkVars, engineVars, scanVars, threatVars>>

InitKev == Idle
NextKev == LoadCisaKev \/ KevDone \/ Advance \/ Restart
SpecKev == InitKev /\ [][NextKev]_vars

(* C15.  The threat-intel cache fails soft: after any sequence of calls a   *)
(* call of load_cisa_kev whose fetch times out or fails returns the         *)
(* last-known snapshot, the set the most recent successful fetch gave (the  *)
(* empty set only if no fetch has ever succeeded).                          *)
C15_FailSoftLastKnown ==
    kev_call # NoCall /\ kev_call.fetched = "failed" =>
        kev_call.result = last_fetched

-----------------------------------------------------------------------------
(* C16.  Catalog loading is never aborted by a bad file: whatever files of  *)
(* the directory are malformed (unreadable, not JSON, or JSON whose         *)
(* top-level value or entries are not rule objects), from_directory returns *)
(* without raising, takes no rule from a malformed file and loads every     *)
(* rule of the other files.                                                 *)
IsMalformed(content) ==
    \/ content.t # "json"
    \/ content.payload.t \notin {"dict", "list"}
    \/ /\ content.payload.t = "list"
       /\ \E i \in 1..Len(content.payload.l) : content.payload.l[i].t # "dict"
WellFormedFiles(directory) ==
    [name \in {n \in DOMAIN directory : ~IsMalformed(directory[n])} |-> directory[name]]
C16_BadFileNeverFatal ==
    engine # "none" =>
        /\ engine = "loaded"
        /\ rules = from_directory(WellFormedFiles(rules_dir)).rules

(* C17.  The loaded catalog contains exactly the entries that have an id or *)
(* rule_id, have at least one condition (from conditions, or the singular   *)
(* condition wrapped into a one-element list) and are not disabled; an      *)
(* entry missing both id and rule_id, or having no conditions, is dropped   *)
(* without raising an error.                                                *)
EntrySeqOfFile(content) ==
    IF content.t # "json" THEN <<>>
    ELSE IF content.payload.t = "dict" THEN <<content.payload>>
    ELSE IF content.payload.t = "list" THEN content.payload.l
    ELSE <<>>
HasId(entry) == Truthy(Get(entry, "id")) \/ Truthy(Get(entry, "rule_id"))
ConditionsOf(entry) ==
    IF Truthy(Get(entry, "conditions")) THEN Get(entry, "conditions").l
    ELSE IF Truthy(Get(entry, "condition")) THEN <<Get(entry, "condition")>>
    ELSE <<>>
IsKept(entry) == HasId(entry) /\ ConditionsOf(entry) # <<>> /\ ~IsDisabled(entry)
IdAndConditions(entry) == <<DeclaredId(entry), ConditionsOf(entry)>>
KeptOfFile(content) ==
    LET kept == SelectSeq(EntrySeqOfFile(content), IsKept)
    IN  [k \in 1..Len(kept) |-> IdAndConditions(kept[k])]
KeptEntries(directory) ==
    Flatten([i \in 1..Len(SortedPaths(directory)) |->
               KeptOfFile(directory[SortedPaths(directory)[i]])])
C17_CatalogIsKeptEntries ==
    /\ engine = "loaded" =>
          [k \in 1..Len(rules) |-> <<rules[k].id, rules[k].conditions>>]
              = KeptEntries(rules_dir)
    /\ \A entry \in EntriesOf(rules_dir) :
          ~HasId(entry) \/ ConditionsOf(entry) = <<>>
              => _build_rule_from_entry(entry) = None
C17_Witness ==
    /\ engine = "loaded"
    /\ RuleKev \in EntriesOf(rules_dir)
    /\ RuleNoId \in EntriesOf(rules_dir)
    /\ RuleEmpty \in EntriesOf(rules_dir)
    /\ RuleHighOff \in EntriesOf(rules_dir)
    /\ [k \in 1..Len(rules) |-> rules[k].id]
          \in {<<Word("R-TWO"), Word("R-CVSS"), Word("R-KEV")>>,
               <<Word("R-CVSS"), Word("R-KEV"), Word("R-TWO")>>}

(* C18.  The catalog from_directory returns lists the rules in file-sort    *)
(* order and, within one file, in the order of the entries of the file;     *)
(* hypotheses are emitted in that order.                                    *)
FileOrderCatalog(directory) ==
    Flatten([i \in 1..Len(FileNames) |->
               IF FileNames[i] \in DOMAIN directory
               THEN LET entries == EntrySeqOfFile(directory[FileNames[i]])
                        built == [k \in 1..Len(entries) |-> _build_rule_from_entry(entries[k])]
                    IN  SelectSeq(built, LAMBDA rule : rule # None)
               ELSE <<>>])
RECURSIVE IsSubsequence(_, _)
IsSubsequence(a, b) ==
    IF a = <<>> THEN TRUE
    ELSE IF b = <<>> THEN FALSE
    ELSE IF Head(a) = Head(b) THEN IsSubsequence(Tail(a), Tail(b))
    ELSE IsSubsequence(a, Tail(b))
C18_CatalogOrder ==
    /\ engine = "loaded" => rules = FileOrderCatalog(rules_dir)
    /\ EvaluateCalled =>
          IsSubsequence(Yielded,
                        [k \in 1..Len(FileOrderCatalog(rules_dir)) |->
                            Hypothesis(FileOrderCatalog(rules_dir)[k])])
C18_Witness ==
    /\ EvaluateExhausted
    /\ rules_dir = ("10-core.json" :> Json(List(<<RuleCvss, RuleKev, RuleNoId>>))
                    @@ "20-extra.json" :> Json(List(<<RuleAny, RuleOff>>)))
    /\ [k \in 1..Len(Yielded) |-> Yielded[k].rule_id]
          = <<Word("R-CVSS"), Word("R-KEV"), Word("R-ANY")>>

-----------------------------------------------------------------------------
(* The body of the loop over the hypotheses of ScanService.run (lines       *)
(* 135-158), on the hypotheses of a catalog                                 *)

\* lines 135-144: the multiplier passed to compute_score, and the score
ScoreThreat ==
    /\ threat_call = NoCall
    /\ \E hypothesis \in Hypotheses, enriched_vuln \in EvalVulnerabilities,
          service_context \in Services :
           threat_call' =
               [op |-> "compute_score", hypothesis |-> hypothesis,
                vulnerability |-> enriched_vuln, service_context |-> service_context,
                pattern_multiplier |-> PatternMultiplier(hypothesis),
                result |-> HypothesisScore(hypothesis, enriched_vuln, service_context)]
    /\ UNCHANGED <<scoreVars, condVars, sharedVars, walkVars, engineVars, scanVars, kevVars>>

\* lines 151-157: _build_hypothesis_payload(component, vulnerability,
\* service_context, hypothesis, score)
BuildHypothesisPayload ==
    /\ threat_call = NoCall
    /\ \E hypothesis \in Hypotheses, vulnerability \in ThreatVulnerabilities,
          service_context \in Services, score \in ThreatScores :
           threat_call' =
               [op |-> "_build_hypothesis_payload", hypothesis |-> hypothesis,
                vulnerability |-> vulnerability, service_context |-> service_context,
                score |-> score,
                result |-> _build_hypothesis_payload(Lodash, vulnerability, service_context,
                                                     hypothesis, score)]
    /\ UNCHANGED <<scoreVars, condVars, sharedVars, walkVars, engineVars, scanVars, kevVars>>

ThreatDone ==
    /\ threat_call # NoCall
    /\ threat_call' = NoCall
    /\ UNCHANGED <<scoreVars, condVars, sharedVars, walkVars, engineVars, scanVars, kevVars>>

InitThreat == Idle
NextThreat == ScoreThreat \/ BuildHypothesisPayload \/ ThreatDone
SpecThreat == InitThreat /\ [][NextThreat]_vars

PayloadBuilt == threat_call.op = "_build_hypothesis_payload"
ThreatScored == threat_call.op = "compute_score"

(* C19, as stated.  Hypothesis assembly never fails and always sets status  *)
(* to "open": the record _build_hypothesis_payload returns has status       *)
(* "open", and every evidence field (cve, severity, cvss, exploit maturity, *)
(* intel) that is missing from the vulnerability is null in it.             *)
Has(vulnerability, keys) == \E k \in keys : k \in DOMAIN vulnerability.d
Evidence(payload) == Get(payload, "evidence")
FourFieldsNull(vulnerability, evidence) ==
    /\ ~Has(vulnerability, {"VulnerabilityID", "cve"}) => Get(evidence, "cve") = None
    /\ ~Has(vulnerability, {"Severity", "severity"}) => Get(evidence, "severity") = None
    /\ ~Has(vulnerability, {"CVSS", "cvss", "CVSSScore", "cvssScore"})
          => Get(evidence, "cvss") = None
    /\ ~Has(vulnerability, {"Exploitability", "exploit_maturity"})
          => Get(evidence, "exploit_maturity") = None
IsOpenRecord(payload) ==
    /\ payload.t = "dict"
    /\ DOMAIN payload.d = {"target", "value", "pattern", "objective", "evidence",
                           "recommended_actions", "score", "status"}
    /\ DOMAIN Evidence(payload).d = {"cve", "severity", "cvss", "exploit_maturity", "intel"}
    /\ Get(payload, "status") = Word("open")
C19_MissingEvidenceNull ==
    PayloadBuilt =>
        /\ IsOpenRecord(threat_call.result)
        /\ FourFieldsNull(threat_call.vulnerability, Evidence(threat_call.result))
        /\ ~Has(threat_call.vulnerability, {"threatintel"})
              => Get(Evidence(threat_call.result), "intel") = None

(* C19, amended.  Hypothesis assembly never fails and always sets status to *)
(* "open"; a missing cve, severity, cvss or exploit maturity is null in the *)
(* record, and a missing intel is the empty map, not null.                  *)
C19_MissingEvidenceNullOrEmpty ==
    PayloadBuilt =>
        /\ IsOpenRecord(threat_call.result)
        /\ FourFieldsNull(threat_call.vulnerability, Evidence(threat_call.result))
        /\ ~Has(threat_call.vulnerability, {"threatintel"})
              => Get(Evidence(threat_call.result), "intel") = EmptyDict
C19_Witness ==
    /\ PayloadBuilt
    /\ threat_call.vulnerability = Dict("severity" :> Word("low"))
    /\ threat_call.service_context = None
    /\ Get(threat_call.result, "status") = Word("open")
    /\ Evidence(threat_call.result)
          = Dict("cve" :> None @@ "severity" :> Word("low") @@ "cvss" :> None
                 @@ "exploit_maturity" :> None @@ "intel" :> EmptyDict)

(* C20.  For every matched hypothesis the multiplier passed to the scorer   *)
(* is the pattern_multiplier of the rule times the multiplier of the rule's *)
(* severity: 0.8 for low, 1.2 for high, and 1.0 for medium, for an absent   *)
(* severity and for any other value.                                        *)
ClaimedSeverityMultiplier(rule_severity) ==
    CASE rule_severity = Word("low") -> 80
      [] rule_severity = Word("high") -> 120
      [] OTHER -> 100
-----------------------------------------------------------------------------
(* C22.  The complex match-type exists is equivalent to the Simple exists   *)
(* operator: for every field path f and every context, the condition        *)
(* {"match_type": "exists", "field": f} evaluates to the result of the      *)
(* Simple condition {f: {"exists": true}}, and not_exists on f to the       *)
(* negation of that result.                                                 *)
HasMatchType(c, match_type) ==
    /\ c.t = "odict"
    /\ HasKey(c, <<"match_type">>)
    /\ CGet(c, <<"match_type">>) = Word(match_type)
NamesField(c) ==
    /\ CGet(c, <<"field">>).t = "str"
    /\ CGet(c, <<"field">>) # EmptyStr
SimpleExists(f) == Simple(f.s, Op("exists", Bool(TRUE)))
Negation(r) == IF r = Bool(TRUE) THEN Bool(FALSE) ELSE Bool(TRUE)
C22_ExistsEquivalence ==
    /\ ConditionCalled /\ HasMatchType(cond_call.condition, "exists")
       /\ NamesField(cond_call.condition)
       => cond_call.result =
              _condition_matches(SimpleExists(CGet(cond_call.condition, <<"field">>)),
                                 cond_call.context)
    /\ ConditionCalled /\ HasMatchType(cond_call.condition, "not_exists")
       /\ NamesField(cond_call.condition)
       => cond_call.result =
              Negation(_condition_matches(SimpleExists(CGet(cond_call.condition, <<"field">>)),
                                          cond_call.context))

(* C23.  The match-types exists and not_exists treat an empty string, an    *)
(* empty list and an empty map as absent: for a field resolving to one of   *)
(* these, or to nothing, exists is false and not_exists is true; for any    *)
(* other value exists is true and not_exists is false.                      *)
TakenAsAbsent(v) == v \in {None, Str(<<"">>), List(<<>>), Dict(EmptyMap)}
C23_EmptyIsAbsent ==
    /\ ConditionCalled /\ HasMatchType(cond_call.condition, "exists")
       /\ NamesField(cond_call.condition)
       => cond_call.result =
              Bool(~TakenAsAbsent(Resolves(cond_call.context,
                                           CGet(cond_call.condition, <<"field">>))))
    /\ ConditionCalled /\ HasMatchType(cond_call.condition, "not_exists")
       /\ NamesField(cond_call.condition)
       => cond_call.result =
              Bool(TakenAsAbsent(Resolves(cond_call.context,
                                          CGet(cond_call.condition, <<"field">>))))

(* C24.  Equality treats absence as non-match: a Simple equality condition, *)
(* in the bare literal form or the {"eq": literal} form, for every expected *)
(* literal (null included), is false when its field resolves to the absence *)
(* marker; and gte, lte, gt and lt are false on an absent actual value.     *)
IsSimple(c) == c.t = "odict" /\ Len(c.items) > 0 /\ ~HasKey(c, <<"match_type">>)
SimpleField(c) == Str(c.items[1][1])
SimpleValue(c) == c.items[1][2]
IsEquality(c) ==
    /\ IsSimple(c)
    /\ \/ SimpleValue(c).t # "odict"
       \/ /\ Len(SimpleValue(c).items) = 1
          /\ SimpleValue(c).items[1][1] = <<"eq">>
IsOrdering(c) ==
    /\ IsSimple(c)
    /\ SimpleValue(c).t = "odict"
    /\ Len(SimpleValue(c).items) = 1
    /\ SimpleValue(c).items[1][1] \in {<<"gte">>, <<"lte">>, <<"gt">>, <<"lt">>}
C24_AbsenceIsNonMatch ==
    /\ ConditionCalled
    /\ IsEquality(cond_call.condition) \/ IsOrdering(cond_call.condition)
    /\ Resolves(cond_call.context, SimpleField(cond_call.condition)) = None
    => cond_call.result = Bool(FALSE)

-----------------------------------------------------------------------------
(* C25.  AND-combination holds at every level: a rule matches (yields its   *)
(* hypothesis) exactly when every condition of its list evaluates true, and *)
(* an `and` condition is true exactly when every nested subcondition, at    *)
(* any depth, evaluates true; one false leaf anywhere in the nesting makes  *)
(* the rule not match.                                                      *)
IsAnd(c) ==
    /\ HasMatchType(c, "and")
    /\ CGetD(c, <<"subconditions">>, List(<<>>)).t = "list"
RECURSIVE EveryLeafTrue(_, _)
EveryLeafTrue(c, context) ==
    IF IsAnd(c)
    THEN LET subconditions == CGetD(c, <<"subconditions">>, List(<<>>)).l
         IN  \A k \in 1..Len(subconditions) : EveryLeafTrue(subconditions[k], context)
    ELSE _condition_matches(c, context) = Bool(TRUE)
HasYielded(rule) == \E k \in 1..Len(Yielded) : Yielded[k] = Hypothesis(rule)
C25_AndCombination ==
    EvaluateCalled =>
        \A j \in 1..Len(rules) :
            j < eval_call.gen.i =>
                (HasYielded(rules[j]) <=>
                    \A k \in 1..Len(rules[j].conditions) :
                        EveryLeafTrue(rules[j].conditions[k], eval_call.gen.context))
C25_Witness ==
    /\ EvaluateExhausted
    /\ \E j \in 1..Len(rules) : rules[j].id = Word("R-NESTED")
    /\ Get(eval_call.vulnerability, "severity") = Word("HIGH")
    /\ Get(eval_call.vulnerability, "cvss") = Num(850)
    /\ Get(eval_call.component, "purl") = LodashPurl
    /\ Get(eval_call.threatintel, "kev_listed") = Bool(FALSE)
    /\ Word("R-NESTED") \notin YieldedIds

-----------------------------------------------------------------------------
(* C27.  The severity_score compute_score uses is cvss / 10, cvss being the *)
(* CVSS value of the vulnerability under the key of the scanner (CVSS) or   *)
(* the normalized key (cvss), given as a flat number or as a nested object  *)
(* with a Score or score entry, and 0 when the vulnerability has no CVSS.   *)
CvssKeys == {"CVSS", "cvss"}
\* the number a CVSS value carries: flat, or the Score / score of an object
CarriedCvss(value) ==
    IF value.t = "num" THEN value
    ELSE IF value.t = "dict" /\ "Score" \in DOMAIN value.d THEN value.d["Score"]
    ELSE IF value.t = "dict" /\ "score" \in DOMAIN value.d THEN value.d["score"]
    ELSE None
\* the vulnerability has no CVSS, or one CVSS value of a shape the claim names
HasOneCvss(vulnerability) ==
    \E k \in CvssKeys :
        /\ DOMAIN vulnerability.d \cap CvssKeys = {k}
        /\ CarriedCvss(vulnerability.d[k]).t = "num"
HasNoCvss(vulnerability) == DOMAIN vulnerability.d \cap CvssKeys = {}
ClaimedSeverityScore(vulnerability) ==
    IF HasNoCvss(vulnerability) THEN Num(0)
    ELSE CarriedCvss(vulnerability.d[CHOOSE k \in CvssKeys : k \in DOMAIN vulnerability.d])
C27_SeverityScore ==
    /\ score_call.op = "compute_score"
    /\ HasNoCvss(score_call.vulnerability) \/ HasOneCvss(score_call.vulnerability)
    => SeverityScore(score_call.vulnerability) = ClaimedSeverityScore(score_call.vulnerability)

-----------------------------------------------------------------------------
(* C28, as stated.  KEV cache refresh discipline: a load_cisa_kev call with *)
(* force_refresh false fetches from the network only if neither the         *)
(* snapshot in memory nor the cache file is unexpired; a successful fetch   *)
(* sets the expiry 6 hours ahead and a failed one 15 minutes ahead, so      *)
(* after a failure no further fetch is attempted until those 15 minutes     *)
(* have passed; force_refresh true always fetches.                          *)
LoadStep == kev_call = NoCall /\ kev_call' # NoCall
MemoryUnexpired ==
    _kev_cache # None /\ _kev_cache_expiry # None /\ now < _kev_cache_expiry.n
FileUnexpired == cache_file.t = "file" /\ now < cache_file.expires_at
Fetches == kev_call'.fetched # "none"
FailedLately == last_failed # None /\ now < last_failed.n + FAILURE_TTL
FetchDiscipline ==
    /\ ~kev_call'.force_refresh /\ Fetches => ~MemoryUnexpired /\ ~FileUnexpired
    /\ kev_call'.fetched = "succeeded" => _kev_cache_expiry' = Time(now + _CACHE_TTL)
    /\ kev_call'.fetched = "failed" => _kev_cache_expiry' = Time(now + FAILURE_TTL)
    /\ kev_call'.force_refresh => Fetches
C28_RefreshDiscipline ==
    [][LoadStep =>
          /\ FetchDiscipline
          /\ ~kev_call'.force_refresh /\ FailedLately => ~Fetches]_vars

(* C28, amended.  As C28, except that after a failure it is the process     *)
(* that made the failed fetch that attempts no further fetch for 15         *)
(* minutes, and a process started in that time attempts none when the cache *)
(* file holds the expiry: it fetches again when the failed call could not   *)
(* write the file.                                                          *)
C28_RefreshDisciplinePerProcess ==
    [][LoadStep =>
          /\ FetchDiscipline
          /\ /\ ~kev_call'.force_refresh
             /\ FailedLately
             /\ _kev_cache # None \/ FileUnexpired
             => ~Fetches]_vars
C28_Witness ==
    /\ kev_call # NoCall
    /\ ~kev_call.force_refresh
    /\ kev_call.fetched = "none"
    /\ last_failed = Time(now)
    /\ _kev_cache = KevSet({})
    /\ _kev_cache_expiry = Time(now + FAILURE_TTL)
    /\ now >= _CACHE_TTL

-----------------------------------------------------------------------------
(* C29.  Scan persistence is all-or-nothing.  The database holds rows of    *)
(* the run exactly when run has returned, that is when the body of          *)
(* session_scope completed without an exception: then it holds the scan     *)
(* row, one component row for each component of the SBOM, one vulnerability *)
(* row for each vulnerability evaluated and one threat row for each threat  *)
(* reported.  While the run is inside the scope, and after it raised from   *)
(* inside the scope (an insertion, rule evaluation, scoring or report       *)
(* writing), the database holds what it held before the scan and no         *)
(* ProjectScan, Component, Vulnerability or Threat row of the run.  The     *)
(* session is left without rows in both cases.                              *)
RowsOfScan(table, scan_id) ==
    SelectSeq(table, LAMBDA row : row.scan_id = scan_id)
ScanRows(scan_id) ==
    SelectSeq(db.scans, LAMBDA row : row.id = scan_id)
VulnerabilityRowsOfScan(scan_id) ==
    SelectSeq(db.vulnerabilities,
              LAMBDA row : \E k \in 1..Len(db.components) :
                              /\ db.components[k].id = row.component_id
                              /\ db.components[k].scan_id = scan_id)
NothingPersisted ==
    /\ db \in PriorDatabases
    /\ ScanRows(run.scan_id) = <<>>
    /\ RowsOfScan(db.components, run.scan_id) = <<>>
    /\ VulnerabilityRowsOfScan(run.scan_id) = <<>>
    /\ RowsOfScan(db.threats, run.scan_id) = <<>>
EverythingPersisted ==
    /\ ScanRows(run.scan_id) = <<ProjectScan(run.scan_id, run.project)>>
    /\ Len(RowsOfScan(db.components, run.scan_id)) = Len(run.components)
    /\ Len(VulnerabilityRowsOfScan(run.scan_id)) = run.vulnerability_count
    /\ Len(RowsOfScan(db.threats, run.scan_id)) = Len(run.threats_payload)
C29_AllOrNothing ==
    run # NoCall =>
        /\ run.pc = "returned" => EverythingPersisted /\ session = NoRows
        /\ run.pc = "raised" => NothingPersisted /\ session = NoRows
        /\ run.pc \notin {"returned", "raised"} => NothingPersisted
\* a run that raised while scoring, after a scan row, a component row and a
\* vulnerability row had been flushed
C29_Witness ==
    /\ run # NoCall
    /\ run.pc = "raised"
    /\ run.error = "TypeError"
    /\ run.vulnerability_count > 0
    /\ run.component_id > 0
    /\ session = NoRows
    /\ NothingPersisted
C29_WitnessFlush ==
    /\ run # NoCall
    /\ run.pc = "raised"
    /\ run.error = FlushError
    /\ Len(run.threats_payload) > 0
C29_WitnessReturned ==
    /\ run # NoCall
    /\ run.pc = "returned"
    /\ Len(run.threats_payload) > 0
    /\ db.threats # <<>>

-----------------------------------------------------------------------------
(* Two callers evaluate over the one engine, turn by turn: each holds its   *)
(* own generator (rule_engine.py lines 46-73) and scores and assembles what *)
(* it yields (service.py lines 129-158), as the loop of ScanService.run     *)
(* does                                                                     *)

SharedServiceMap == LodashPurl :> Payments @@ Word("libX") :> Batch
SharedKev == {<<"CVE-2021-1234">>}
\* the (component, vulnerability) pairs the callers evaluate
SharedPairs ==
    {<<Lodash, enrich_with_threatintel(<<LodashHigh>>, SharedKev)[1]>>,
     <<Lodash, enrich_with_threatintel(<<LodashCritical>>, SharedKev)[1]>>,
     <<LibX, enrich_with_threatintel(<<LibXLow>>, SharedKev)[1]>>}

\* service.py lines 135-158: the hypothesis just yielded is scored and the
\* payload of its threat assembled
ScoredTurn(call, gen, hypothesis, score) ==
    IF Raised(score)
    THEN [call EXCEPT !.gen = [gen EXCEPT !.status = "raised", !.error = score.e]]
    ELSE [call EXCEPT
            !.gen = gen,
            !.threats = Append(@, [hypothesis |-> hypothesis, score |-> score,
                                   payload |-> _build_hypothesis_payload(
                                                   call.component, call.vulnerability,
                                                   call.service_context, hypothesis, score)])]
\* service.py lines 129-158: what one turn of the loop leaves of the call
EvaluationTurn(call, gen) ==
    IF Len(gen.yielded) = Len(call.gen.yielded) THEN [call EXCEPT !.gen = gen]
    ELSE ScoredTurn(call, gen, gen.yielded[Len(gen.yielded)],
                    HypothesisScore(gen.yielded[Len(gen.yielded)], call.vulnerability,
                                    call.service_context))

\* service.py lines 129-134: a caller calls evaluate on a pair no other
\* caller is evaluating
BeginEvaluation(caller) ==
    /\ engine = "loaded"
    /\ evaluations[caller] = NoCall
    /\ \E pair \in SharedPairs :
          /\ \A other \in Callers :
                evaluations[other] # NoCall =>
                    <<evaluations[other].component, evaluations[other].vulnerability>> # pair
          /\ evaluations' =
                [evaluations EXCEPT ![caller] =
                    [op |-> "evaluate", component |-> pair[1], vulnerability |-> pair[2],
                     service_context |-> _resolve_context(pair[1], SharedServiceMap),
                     given |-> <<pair[1], pair[2], _resolve_context(pair[1], SharedServiceMap)>>,
                     gen |-> NewGenerator(pair[1], pair[2],
                                          _resolve_context(pair[1], SharedServiceMap),
                                          GetD(pair[2], "threatintel", EmptyDict)),
                     threats |-> <<>>]]
    /\ UNCHANGED <<scoreVars, condVars, walkVars, engineVars, scanVars, kevVars, threatVars>>

\* one turn of the loop of a caller; the engine and the arguments are read
TurnEvaluation(caller) ==
    /\ evaluations[caller] # NoCall
    /\ evaluations[caller].gen.status = "running"
    /\ evaluations' =
          [evaluations EXCEPT ![caller] =
              EvaluationTurn(@, EvaluateStep(rules, evaluations[caller].gen))]
    /\ UNCHANGED <<scoreVars, condVars, walkVars, engineVars, scanVars, kevVars, threatVars>>

\* the loop of a caller has ended, or raised
EndEvaluation(caller) ==
    /\ evaluations[caller] # NoCall
    /\ evaluations[caller].gen.status # "running"
    /\ evaluations' = [evaluations EXCEPT ![caller] = NoCall]
    /\ UNCHANGED <<scoreVars, condVars, walkVars, engineVars, scanVars, kevVars, threatVars>>

BeginSome == \E caller \in Callers : BeginEvaluation(caller)
TurnSome == \E caller \in Callers : TurnEvaluation(caller)
EndSome == \E caller \in Callers : EndEvaluation(caller)

InitShared == Init
NextShared == FromDirectory \/ BeginSome \/ TurnSome \/ EndSome
SpecShared == InitShared /\ [][NextShared]_vars

(* C26.  Evaluation touches no shared mutable state.  Under every           *)
(* interleaving of the turns of two callers that evaluate different         *)
(* (component, vulnerability) pairs over the one engine, the catalog stays  *)
(* the catalog as loaded and the component, the vulnerability and the       *)
(* service context of each caller stay as given, and an evaluation that has *)
(* ended has yielded the hypotheses of exactly the rules that match its own *)
(* pair, in catalog order, each with the score and the payload computed     *)
(* from its own pair: what it yields when it runs alone.  An evaluation     *)
(* that raised has yielded the first of them.                               *)
AloneContext(call) ==
    BuildContext(call.given[1], call.given[2], call.given[3],
                 GetD(call.given[2], "threatintel", EmptyDict))
AloneHypotheses(call) ==
    MatchingRules(from_directory(rules_dir).rules, AloneContext(call), 1)
AloneThreat(call, hypothesis) ==
    [hypothesis |-> hypothesis,
     score |-> HypothesisScore(hypothesis, call.given[2], call.given[3]),
     payload |-> _build_hypothesis_payload(
                     call.given[1], call.given[2], call.given[3], hypothesis,
                     HypothesisScore(hypothesis, call.given[2], call.given[3]))]
AsWhenAlone(call) ==
    /\ Len(call.gen.yielded) <= Len(AloneHypotheses(call))
    /\ call.gen.yielded = SubSeq(AloneHypotheses(call), 1, Len(call.gen.yielded))
    /\ Len(call.threats) <= Len(call.gen.yielded)
    /\ \A k \in 1..Len(call.threats) :
          call.threats[k] = AloneThreat(call, AloneHypotheses(call)[k])
    /\ call.gen.status = "done" =>
          /\ Len(call.gen.yielded) = Len(AloneHypotheses(call))
          /\ Len(call.threats) = Len(AloneHypotheses(call))
C26_NoSharedMutableState ==
    /\ engine = "loaded" => rules = from_directory(rules_dir).rules
    /\ \A caller \in Callers :
          evaluations[caller] # NoCall =>
              /\ <<evaluations[caller].component, evaluations[caller].vulnerability,
                    evaluations[caller].service_context>> = evaluations[caller].given
              /\ evaluations[caller].gen.context = AloneContext(evaluations[caller])
              /\ evaluations[caller].gen.status # "running" =>
                    AsWhenAlone(evaluations[caller])
\* a caller has ended with threats of its own while the other, on another
\* pair, is in the middle of the catalog with a threat of its own
C26_Witness ==
    /\ evaluations[1] # NoCall
    /\ evaluations[2] # NoCall
    /\ evaluations[1].gen.status = "running"
    /\ evaluations[1].gen.i > 1
    /\ Len(evaluations[1].threats) > 0
    /\ evaluations[2].gen.status = "done"
    /\ Len(evaluations[2].threats) > 0
    /\ evaluations[1].threats[1] # evaluations[2].threats[1]
    /\ AsWhenAlone(evaluations[2])

-----------------------------------------------------------------------------
(* context_generator.py: the components of a Node project.  A package name  *)
(* is the string of its parts between "/"; a version is its leading "^" or  *)
(* "~" characters and the rest; a directory is known by a name, the         *)
(* project directory by ProjectDir, and holds a package.json and the        *)
(* packages of its node_modules, each a directory (a link to a directory    *)
(* counts, as Path.exists follows it).                                      *)

ProjectDir == "project_dir"
Package(parts) == Str(parts)
Version(prefix, rest) == [t |-> "version", prefix |-> prefix, rest |-> rest]
\* the first parts of import targets that are relative paths or aliases
RelativeHeads == {"", ".", "..", "#app"}
\* the first parts that start with "@"
Scopes == {"@nestjs"}

\* lines 116-125
_normalize_import_target(target) ==
    IF target.s = <<>> \/ Head(target.s) \in RelativeHeads THEN None
    ELSE IF Head(target.s) \in Scopes
    THEN (IF Len(target.s) >= 2 THEN Package(SubSeq(target.s, 1, 2)) ELSE target)
    ELSE Package(<<Head(target.s)>>)

\* lines 109-113: a package.json that is missing or is not JSON is {}
EmptyManifest == [t |-> "json", name |-> None, version |-> None, sections |-> <<>>]
_load_package_manifest(file) ==
    IF file.t \in {"missing", "badjson"} THEN EmptyManifest ELSE file

\* a dict that keeps the order of its keys, as a sequence of items
PositionOf(items, key) ==
    IF \E k \in 1..Len(items) : items[k].key = key
    THEN CHOOSE k \in 1..Len(items) : items[k].key = key
    ELSE 0
SetItem(items, item) ==
    IF PositionOf(items, item.key) = 0 THEN Append(items, item)
    ELSE [items EXCEPT ![PositionOf(items, item.key)] = item]

\* lines 137-145: the entries of one section, added to result
RECURSIVE SectionDependencies(_, _, _)
SectionDependencies(entries, result, i) ==
    IF i > Len(entries) THEN result
    ELSE IF _normalize_import_target(entries[i][1]) = None
    THEN SectionDependencies(entries, result, i + 1)
    ELSE SectionDependencies(entries,
             SetItem(result, [key |-> _normalize_import_target(entries[i][1]),
                              raw |-> entries[i][1], version |-> entries[i][2]]),
             i + 1)
DependencyKeys ==
    <<"dependencies", "devDependencies", "peerDependencies", "optionalDependencies">>
\* lines 128-146
RECURSIVE ExtractSections(_, _, _)
ExtractSections(manifest, result, k) ==
    IF k > Len(DependencyKeys) THEN result
    ELSE IF DependencyKeys[k] \in DOMAIN manifest.sections
    THEN ExtractSections(manifest,
             SectionDependencies(manifest.sections[DependencyKeys[k]], result, 1), k + 1)
    ELSE ExtractSections(manifest, result, k + 1)
_extract_dependency_map(manifest) == ExtractSections(manifest, <<>>, 1)

\* the source files of the project, in sorted order
SourceFiles == <<"src/index.js", "src/worker.js">>
\* lines 178-184: the sorted paths, joined by ", "
_choose_service_label(paths) ==
    IF paths = {} THEN <<"service">>
    ELSE SelectSeq(SourceFiles, LAMBDA path : path \in paths)

\* lines 187-197: the directory of the package under the node_modules of
\* base_dir, when it holds a package.json
_resolve_package_manifest(dirs, base_dir, package_name) ==
    IF package_name \notin DOMAIN dirs[base_dir].node_modules THEN None
    ELSE IF dirs[dirs[base_dir].node_modules[package_name]].manifest.t = "missing" THEN None
    ELSE [t |-> "path", parent |-> dirs[base_dir].node_modules[package_name]]

\* lines 200-216
NormalizedVersion(version) ==
    IF version = None \/ (version.prefix = "" /\ version.rest = "") THEN None
    ELSE IF version.rest = "" THEN version
    ELSE Version("", version.rest)
_make_component(name, version) ==
    [name |-> name, version |-> NormalizedVersion(version),
     purl |-> <<"pkg:npm/", name, NormalizedVersion(version)>>]

\* dict.setdefault and dict.get
SetDefault(f, key, value) == IF key \in DOMAIN f THEN f ELSE f @@ (key :> value)
Assign(f, key, value) == [k \in DOMAIN f \cup {key} |-> IF k = key THEN value ELSE f[k]]
GetOrNone(f, key) == IF key \in DOMAIN f THEN f[key] ELSE None

\* lines 222-230: the declared dependencies some source file imports
Selected(project) ==
    SelectSeq(_extract_dependency_map(_load_package_manifest(project.dirs[ProjectDir].manifest)),
              LAMBDA item : item.key \in DOMAIN project.used)

\* lines 239-243: the roots of the walk
RECURSIVE EnqueueSelected(_, _, _, _)
EnqueueSelected(w, selected, used, i) ==
    IF i > Len(selected) THEN w
    ELSE EnqueueSelected(
             [w EXCEPT
                !.components = Assign(@, selected[i].key,
                                      _make_component(selected[i].raw, selected[i].version)),
                !.component_services = Assign(@, selected[i].key,
                                              _choose_service_label(used[selected[i].key])),
                !.queue = Append(@, [package_name |-> selected[i].key, base_dir |-> ProjectDir,
                                     service_label |->
                                         _choose_service_label(used[selected[i].key])])],
             selected, used, i + 1)

\* lines 286-290: the dependencies of an expanded package join the queue
RECURSIVE EnqueueDependencies(_, _, _, _, _)
EnqueueDependencies(w, dependencies, package_dir, service_label, i) ==
    IF i > Len(dependencies) THEN w
    ELSE EnqueueDependencies(
             [w EXCEPT
                !.components =
                    IF dependencies[i].key \in DOMAIN @ THEN @
                    ELSE Assign(@, dependencies[i].key,
                                _make_component(dependencies[i].raw, dependencies[i].version)),
                !.component_services = SetDefault(@, dependencies[i].key, service_label),
                !.queue = Append(@, [package_name |-> dependencies[i].key,
                                     base_dir |-> package_dir,
                                     service_label |-> service_label])],
             dependencies, package_dir, service_label, i + 1)

\* lines 261-265
CanonicalName(manifest_data, package_name) ==
    IF manifest_data.name # None /\ _normalize_import_target(manifest_data.name) # None
    THEN _normalize_import_target(manifest_data.name)
    ELSE package_name
\* lines 267-273
DisplayName(manifest_data, existing_component, package_name) ==
    IF manifest_data.name # None /\ manifest_data.name.s # <<>>
       /\ manifest_data.name.s # <<"">>
    THEN manifest_data.name
    ELSE IF existing_component # None THEN existing_component.name
    ELSE package_name
\* lines 275-279
NewVersion(manifest_data, existing_component) ==
    IF manifest_data.version # None THEN manifest_data.version
    ELSE IF existing_component # None THEN existing_component.version
    ELSE None

\* lines 257-290: the package is expanded from the manifest found
Expand(w, item, manifest_data, canonical, package_dir) ==
    EnqueueDependencies(
        [w EXCEPT
           !.components =
               Assign(@, canonical,
                      _make_component(
                          DisplayName(manifest_data, GetOrNone(@, canonical), item.package_name),
                          NewVersion(manifest_data, GetOrNone(@, canonical)))),
           !.component_services = SetDefault(@, canonical, item.service_label)],
        _extract_dependency_map(manifest_data), package_dir, item.service_label, 1)

\* line 249
AlreadyVisitedNever(visited, package_name) == FALSE
AlreadyVisited(visited, package_name) == package_name \in visited

\* lines 247-290: one turn of `while queue`
Resolved(w, item, manifest_path, dirs) ==
    IF manifest_path = None THEN w
    ELSE Expand(w, item, _load_package_manifest(dirs[manifest_path.parent].manifest),
                CanonicalName(_load_package_manifest(dirs[manifest_path.parent].manifest),
                              item.package_name),
                manifest_path.parent)
WalkTurn(w, item, dirs) ==
    IF AlreadyVisited(w.visited, item.package_name) THEN [w EXCEPT !.queue = Tail(@)]
    ELSE Resolved([w EXCEPT !.queue = Tail(@),
                            !.visited = @ \cup {item.package_name},
                            !.expanded = Append(@, item.package_name)],
                  item, _resolve_package_manifest(dirs, item.base_dir, item.package_name),
                  dirs)

\* the package names of the projects, in sorted order
PackageNames ==
    <<Package(<<"@nestjs", "core">>), Package(<<"accepts">>), Package(<<"express">>),
      Package(<<"lodash">>), Package(<<"mime">>), Package(<<"pg">>)>>
\* lines 292-295: sorted(components.keys())
SortedKeys(components) ==
    SelectSeq(PackageNames, LAMBDA name : name \in DOMAIN components)
\* lines 379-396; the label of a component of the walk is never empty, the
\* fields taken from the profile are left out
_build_context_entry(component, service_label) ==
    [component_name |-> component.name, component_purl |-> component.purl,
     service |-> service_label]
\* lines 292-295 and 436-439
Payload(w) ==
    [k \in 1..Len(SortedKeys(w.components)) |->
        _build_context_entry(w.components[SortedKeys(w.components)[k]],
                             w.component_services[SortedKeys(w.components)[k]])]

\* the packages and the files of the projects
Express == Package(<<"express">>)
Accepts == Package(<<"accepts">>)
Mime == Package(<<"mime">>)
LodashPackage == Package(<<"lodash">>)
Pg == Package(<<"pg">>)
NestCore == Package(<<"@nestjs", "core">>)
Manifest(name, version, dependencies) ==
    [t |-> "json", name |-> name, version |-> version,
     sections |-> ("dependencies" :> dependencies)]
NoManifest == [t |-> "missing"]
NotJsonManifest == [t |-> "badjson"]
Directory(manifest, node_modules) == [manifest |-> manifest, node_modules |-> node_modules]
NoModules == <<>>

\* the package.json of the project
RootManifests ==
    {Manifest(Word("demo"), None,
              <<<<Express, Version("^", "4.18.0")>>, <<LodashPackage, Version("^", "4.17.21")>>,
                <<Pg, Version("^", "8.0.0")>>>>),
     [t |-> "json", name |-> Word("demo"), version |-> None,
      sections |-> ("dependencies" :> <<<<Express, Version("~", "4.18.0")>>>>
                    @@ "devDependencies" :>
                        <<<<NestCore, Version("", "10.0.0")>>,
                          <<Package(<<".", "local">>), Version("", "file:local")>>,
                          <<LodashPackage, None>>>>)],
     NotJsonManifest}
ExpressManifest == Manifest(Express, Version("", "4.18.0"), <<<<Accepts, Version("", "1.3.8")>>>>)
LodashManifest == Manifest(LodashPackage, Version("", "4.17.21"), <<<<Accepts, Version("~", "1.3.0")>>>>)
AcceptsManifest == Manifest(Accepts, Version("", "1.3.8"), <<<<Mime, Version("^", "2.1.0")>>>>)
MimeManifest == Manifest(Mime, Version("", "2.1.35"), <<>>)
\* what the project directory holds below its package.json: the
\* directories by name, ProjectDir left out
Installs ==
    {\* nothing installed
     <<>>,
     \* every package under the node_modules of the package that depends on it
     "d1" :> Directory(ExpressManifest, Accepts :> "d2")
       @@ "d2" :> Directory(AcceptsManifest, Mime :> "d3")
       @@ "d3" :> Directory(MimeManifest, NoModules)
       @@ "d4" :> Directory(LodashManifest, NoModules)
       @@ ProjectDir :> Directory(NoManifest, Express :> "d1" @@ LodashPackage :> "d4"),
     \* every package under the node_modules of the project
     "d1" :> Directory(ExpressManifest, NoModules)
       @@ "d2" :> Directory(AcceptsManifest, NoModules)
       @@ "d3" :> Directory(MimeManifest, NoModules)
       @@ ProjectDir :> Directory(NoManifest, Express :> "d1" @@ Accepts :> "d2" @@ Mime :> "d3"),
     \* accepts under lodash only, express and lodash both depending on it
     "d1" :> Directory(ExpressManifest, NoModules)
       @@ "d2" :> Directory(LodashManifest, Accepts :> "d3")
       @@ "d3" :> Directory(AcceptsManifest, Mime :> "d4")
       @@ "d4" :> Directory(MimeManifest, NoModules)
       @@ ProjectDir :> Directory(NoManifest, Express :> "d1" @@ LodashPackage :> "d2"),
     \* linked packages: express and accepts depend on each other, mime on itself
     "d1" :> Directory(ExpressManifest, Accepts :> "d2")
       @@ "d2" :> Directory(Manifest(Accepts, Version("", "1.3.8"),
                                  <<<<Express, Version("^", "4.0.0")>>,
                                    <<Mime, Version("^", "2.1.0")>>>>),
                         Express :> "d1" @@ Mime :> "d3")
       @@ "d3" :> Directory(Manifest(Mime, None, <<<<Mime, Version("", "*")>>>>), Mime :> "d3")
       @@ ProjectDir :> Directory(NoManifest, Express :> "d1"),
     \* a package.json without name or version, one that is not JSON, a
     \* directory without package.json
     "d1" :> Directory(Manifest(None, None, <<<<Accepts, None>>>>), Accepts :> "d2")
       @@ "d2" :> Directory(NotJsonManifest, NoModules)
       @@ "d3" :> Directory(NoManifest, NoModules)
       @@ ProjectDir :> Directory(NoManifest, Express :> "d1" @@ LodashPackage :> "d3")}
\* _scan_used_packages(project_dir): the packages the source files import,
\* each with the files that import it
UsedPackages ==
    {<<>>,
     Express :> {"src/index.js"},
     Express :> {"src/index.js", "src/worker.js"} @@ LodashPackage :> {"src/worker.js"},
     LodashPackage :> {"src/index.js"} @@ NestCore :> {"src/worker.js"},
     Mime :> {"src/index.js"}}
ProjectOf(manifest, installed, used) ==
    [dirs |-> [d \in DOMAIN installed \cup {ProjectDir} |->
                 IF d = ProjectDir
                 THEN Directory(manifest, IF ProjectDir \in DOMAIN installed
                                          THEN installed[ProjectDir].node_modules
                                          ELSE NoModules)
                 ELSE installed[d]],
     used |-> used]
Projects ==
    {ProjectOf(manifest, installed, used) :
        manifest \in RootManifests, installed \in Installs, used \in UsedPackages}

\* lines 219-243: _collect_node_components(project_dir), up to the walk
NewWalk(project) ==
    [op |-> "_collect_node_components", project |-> project, pc |-> "walking",
     components |-> <<>>, component_services |-> <<>>, queue |-> <<>>,
     visited |-> {}, expanded |-> <<>>, payload |-> <<>>]
CollectNodeComponents ==
    /\ walk = NoCall
    /\ \E project \in Projects :
          walk' = IF Selected(project) = <<>>
                  THEN [NewWalk(project) EXCEPT !.pc = "returned"]
                  ELSE EnqueueSelected(NewWalk(project), Selected(project), project.used, 1)
    /\ UNCHANGED <<scoreVars, condVars, sharedVars, engineVars, scanVars, kevVars, threatVars>>

\* lines 247-290: one turn of `while queue`
WalkStep ==
    /\ walk # NoCall
    /\ walk.pc = "walking"
    /\ walk.queue # <<>>
    /\ walk' = WalkTurn(walk, Head(walk.queue), walk.project.dirs)
    /\ UNCHANGED <<scoreVars, condVars, sharedVars, engineVars, scanVars, kevVars, threatVars>>

\* lines 292-295 and 436-444: the queue is empty, the entries are written
WalkReturn ==
    /\ walk # NoCall
    /\ walk.pc = "walking"
    /\ walk.queue = <<>>
    /\ walk' = [walk EXCEPT !.pc = "returned", !.payload = Payload(walk)]
    /\ UNCHANGED <<scoreVars, condVars, sharedVars, engineVars, scanVars, kevVars, threatVars>>

WalkDone ==
    /\ walk # NoCall
    /\ walk.pc = "returned"
    /\ walk' = NoCall
    /\ UNCHANGED <<scoreVars, condVars, sharedVars, engineVars, scanVars, kevVars, threatVars>>

InitWalk == Idle
NextWalk == CollectNodeComponents \/ WalkStep \/ WalkReturn \/ WalkDone
SpecWalk == InitWalk /\ [][NextWalk]_vars
\* the loop runs on its own: a turn, or the return, that can be taken is taken
SpecWalkFair == SpecWalk /\ WF_vars(WalkStep) /\ WF_vars(WalkReturn)

-----------------------------------------------------------------------------
(* C21.  generate_context_file for a Node project emits an entry for every  *)
(* declared dependency that some source file imports (a root) and for every *)
(* package reachable from the roots through the dependencies of installed   *)
(* manifests: a package reached from a directory is looked up under the     *)
(* node_modules of that directory, and the dependencies of the package.json *)
(* found there are reached from the directory of that package.  The entry   *)
(* of a package that is reached and is not a root carries the service label *)
(* of a root it is reached from.  A declared dependency that no source file *)
(* imports and that is not reached has no entry.                            *)
DeclaredIn(file) ==
    IF file.t # "json" THEN {}
    ELSE UNION {{_normalize_import_target(file.sections[key][k][1]) :
                    k \in 1..Len(file.sections[key])} :
                key \in DOMAIN file.sections} \ {None}
Roots(project) ==
    DeclaredIn(project.dirs[ProjectDir].manifest) \cap DOMAIN project.used
\* the packages the installed manifest of <<name, base>> depends on, each
\* with the directory it is reached from
ReachedNext(dirs, reached) ==
    {<<dependency, dirs[reached[2]].node_modules[reached[1]]>> :
        dependency \in DeclaredIn(dirs[dirs[reached[2]].node_modules[reached[1]]].manifest)}
Installed(dirs, reached) == reached[1] \in DOMAIN dirs[reached[2]].node_modules
RECURSIVE ReachedFrom(_, _)
ReachedFrom(dirs, reached) ==
    IF \A r \in {x \in reached : Installed(dirs, x)} : ReachedNext(dirs, r) \subseteq reached
    THEN reached
    ELSE ReachedFrom(dirs, reached \cup UNION {ReachedNext(dirs, r) :
                                                  r \in {x \in reached : Installed(dirs, x)}})
ReachedNames(project, root) ==
    {reached[1] : reached \in ReachedFrom(project.dirs, {<<root, ProjectDir>>})}
EntriesFor(name) ==
    {k \in 1..Len(walk.payload) : walk.payload[k].component_name = name}
WalkReturned == walk # NoCall /\ walk.pc = "returned"
C21_EntriesOfNodeProject ==
    WalkReturned =>
        /\ \A root \in Roots(walk.project) :
              \A name \in ReachedNames(walk.project, root) : EntriesFor(name) # {}
        /\ \A k \in 1..Len(walk.payload) :
              walk.payload[k].component_name \notin Roots(walk.project) =>
                  \E root \in Roots(walk.project) :
                      /\ walk.payload[k].component_name \in ReachedNames(walk.project, root)
                      /\ walk.payload[k].service
                            = _choose_service_label(walk.project.used[root])
        /\ \A name \in DeclaredIn(walk.project.dirs[ProjectDir].manifest) :
              (/\ name \notin DOMAIN walk.project.used
               /\ \A root \in Roots(walk.project) :
                     name \notin ReachedNames(walk.project, root))
                  => EntriesFor(name) = {}
\* the same, for the projects where no package is first reached from a
\* directory that does not hold it
FirstReachResolves ==
    \A root \in Roots(walk.project) :
        \A reached \in ReachedFrom(walk.project.dirs, {<<root, ProjectDir>>}) :
            Installed(walk.project.dirs, reached)
            \/ \A other \in Roots(walk.project) :
                  \A again \in ReachedFrom(walk.project.dirs, {<<other, ProjectDir>>}) :
                      again[1] = reached[1] => ~Installed(walk.project.dirs, again)
C21_EntriesWhenResolved ==
    WalkReturned /\ FirstReachResolves =>
        \A root \in Roots(walk.project) :
            \A name \in ReachedNames(walk.project, root) : EntriesFor(name) # {}

(* C30.  The dependency walk of _collect_node_components terminates for     *)
(* every finite set of installed package manifests, those whose             *)
(* dependencies form cycles and those that depend on themselves included:   *)
(* no package name is expanded twice, and a walk that has begun reaches the *)
(* return with an empty queue.                                              *)
ExpandedAtMostOnce ==
    walk # NoCall =>
        \A i, j \in 1..Len(walk.expanded) : walk.expanded[i] = walk.expanded[j] => i = j
Walking == walk # NoCall /\ walk.pc = "walking"
ReturnedWithEmptyQueue == WalkReturned /\ walk.queue = <<>>
C30_WalkTerminates ==
    /\ []ExpandedAtMostOnce
    /\ Walking ~> ReturnedWithEmptyQueue
\* the walk of the linked packages has returned: express and accepts depend
\* on each other, mime on itself, and each was expanded once
C30_Witness ==
    /\ ReturnedWithEmptyQueue
    /\ walk.expanded = <<Express, Accepts, Mime>>
    /\ Installed(walk.project.dirs, <<Express, "d2">>)
    /\ Installed(walk.project.dirs, <<Mime, "d3">>)
    /\ Mime \in DeclaredIn(walk.project.dirs["d3"].manifest)
====
